---- MODULE Spec2Model ----
(***************************************************************************)
(* CxlMpscQueue (src/cxl_mpsc_queue_exp.hpp): a single-producer /          *)
(* single-consumer ring of 64-byte entries in shared memory.  The producer *)
(* stamps an epoch and a 16-bit XOR checksum into the entry and streams    *)
(* the line into the ring; the consumer re-loads the slot at tail, checks  *)
(* epoch and checksum, advances tail and periodically writes tail back to  *)
(* the shared tail line.                                                   *)
(*                                                                         *)
(* A 64-bit word is a tuple of four 16-bit halfwords, least significant    *)
(* first.  A line is eight words: args[0..6] and the packed meta word.     *)
(* head_, shadow_tail_ and tail_ are uint32_t in the source; every run of  *)
(* the model but those of SpecU32 keeps them far below 2^31, where the     *)
(* unsigned subtraction and the int32_t cast of the fullness test are      *)
(* exact.  SpecU32 keeps them as pairs of halfwords and runs them through  *)
(* 2^32.                                                                   *)
(*                                                                         *)
(* Specifications:                                                         *)
(*   Spec        producer and consumer threads side by side, the 64-byte   *)
(*               store becoming visible word by word                       *)
(*   SpecSeq     whole calls of one thread (the unit tests)                *)
(*   SpecWrap    whole calls, the 1-slot ring past 256 wraps               *)
(*   SpecCk      checksum of a crafted entry and its single-bit flips      *)
(*   SpecCorrupt whole calls with a payload bit flipped in the ring        *)
(*   SpecBuild   construction over used memory, secondary attach           *)
(*   SpecLive    the two retry loops under weak fairness                   *)
(*   SpecBackoff pause and reset of the three backoff sites on their own   *)
(*   SpecPress   whole calls, a producer retrying on a full ring           *)
(*   SpecTwo     whole calls of one thread on two queue objects            *)
(*   SpecU32     whole calls with the 32-bit counters passing 2^32         *)
(*   SpecFlight  two threads, a line with all seven payload words in use   *)
(*   SpecShake   the producer and consumer processes of the throughput     *)
(*               tool (two_server_cxl_mpsc_queue.cpp)                      *)
(*   SpecBump    the bump allocator (cxl_allocator.hpp)                    *)
(***************************************************************************)
EXTENDS Integers, Sequences, FiniteSets, TLC

\* ------------------------------------------------------------------------
\*  Bounds of the model
\* ------------------------------------------------------------------------
MaxOrder == 3
MaxEnq == 3
MaxFail == 2
SeqMaxEnq == 16
SeqMaxFail == 2

\* ------------------------------------------------------------------------
\*  Program constants
\* ------------------------------------------------------------------------
MAX_WAIT_CYCLES == 16384
MIN_WAIT_FULL == 128
MIN_WAIT_EMPTY == 50
MIN_WAIT_CHECKSUM == 100

\* ------------------------------------------------------------------------
\*  Bit operations on naturals
\* ------------------------------------------------------------------------
RECURSIVE XorBits(_, _)
XorBits(a, b) ==
    IF a = 0 THEN b
    ELSE IF b = 0 THEN a
    ELSE ((a + b) % 2) + 2 * XorBits(a \div 2, b \div 2)

\* a ^ b, each operand evaluated once
BitXor(a, b) == CHOOSE r \in { XorBits(x, y) : x \in {a}, y \in {b} } : TRUE

RECURSIVE BitAnd(_, _)
BitAnd(a, b) ==
    IF a = 0 \/ b = 0 THEN 0
    ELSE ((a % 2) * (b % 2)) + 2 * BitAnd(a \div 2, b \div 2)

RECURSIVE Pow2(_)
Pow2(n) == IF n = 0 THEN 1 ELSE 2 * Pow2(n - 1)

Min(a, b) == IF a < b THEN a ELSE b

Max(a, b) == IF a > b THEN a ELSE b

\* ------------------------------------------------------------------------
\*  Entry: 7 payload words and the packed meta word
\* ------------------------------------------------------------------------
ZeroWord == <<0, 0, 0, 0>>

ZeroEntry ==
    [args |-> [i \in 1..7 |-> ZeroWord],
     meta |-> [epoch |-> 0, rpc_method |-> 0, rpc_id |-> 0,
               seal_index |-> 0, checksum |-> 0]]

\* little-endian packed struct: epoch, rpc_method | rpc_id | seal_index | checksum
MetaWord(m) ==
    << m.epoch + 256 * m.rpc_method,
       m.rpc_id,
       (m.seal_index + 65536) % 65536,
       m.checksum >>

\* word i (1..8) of the 64-byte line
LineWord(e, i) == IF i = 8 THEN MetaWord(e.meta) ELSE e.args[i]

\* u ^ v on 64-bit words, each operand evaluated once
XorWord(u, v) ==
    CHOOSE w \in { [i \in 1..4 |-> BitXor(x[i], y[i])] : x \in {u}, y \in {v} } : TRUE

RECURSIVE XorAcc(_, _)
XorAcc(e, n) == IF n = 0 THEN ZeroWord ELSE XorWord(XorAcc(e, n - 1), LineWord(e, n))

\* faulty variant of xor_checksum64: the last fold, (acc >> 16), left out
xor_checksum64NoFold16(e) ==
    LET acc == XorAcc(e, 8)
    IN  BitXor(acc[3], acc[1])

xor_checksum64(e) ==
    LET acc == XorAcc(e, 8)
        lo  == BitXor(acc[3], acc[1])      \* (acc >> 32) ^ (acc & 0xFFFFFFFF), bits 0..15
        hi  == BitXor(acc[4], acc[2])      \*                                   bits 16..31
    IN  BitXor(hi, lo)                     \* (acc >> 16) ^ (acc & 0xFFFF)

\* faulty variant of verify_checksum: the fold compared as a uint8_t
verify_checksumLowByte(e) == xor_checksum64(e) % 256 = 0

verify_checksum(e) == xor_checksum64(e) = 0


\* ------------------------------------------------------------------------
\*  State
\* ------------------------------------------------------------------------
VARIABLES
    order_,            \* log2 of the capacity (constructor argument)
    ring_,             \* the shared ring: slot index -> Entry
    cxl_tail_,         \* the shared tail line (first 8 bytes)
    head_,             \* producer: next sequence number to write
    shadow_tail_,      \* producer: last observed shared tail
    tail_,             \* consumer: next sequence number to read
    metrics,           \* the Metrics block
    backoff_full,      \* current_wait of enqueue's backoff_full
    backoff_empty,     \* current_wait of dequeue's backoff_empty
    backoff_checksum,  \* current_wait of dequeue's backoff_checksum
    ppc,               \* producer position: "idle" or "publish" (inside store_nt_64B)
    in,                \* the caller's entry handed to enqueue (stamped in place)
    pend,              \* words of the line not yet visible in the ring
    out,               \* the caller's entry handed to dequeue
    last,              \* the call that returned last and its result
    enqueued,          \* entries of the enqueue calls that returned true, in order
    dequeued,          \* entries of the dequeue calls that returned true, in order
    built,             \* how each side's queue object was constructed
    align,             \* << ring pointer & 63, shared-tail pointer & 63 >>
    warm,              \* entries enqueued when the consumer side attached
    peer,              \* a second queue object used by the same thread
    shake,             \* the benchmark processes: the three flag lines, positions
    bump               \* the bump allocator: arena, cursor, blocks handed out

vars == << order_, ring_, cxl_tail_, head_, shadow_tail_, tail_, metrics,
           backoff_full, backoff_empty, backoff_checksum, ppc, in, pend, out,
           last, enqueued, dequeued, built, align, warm, peer, shake, bump >>

\* fixed once the queue objects exist
ctorVars == << order_, built, align, warm >>

prodVars == << head_, shadow_tail_, backoff_full, ppc, in, pend, enqueued >>

consVars == << tail_, cxl_tail_, backoff_empty, backoff_checksum, out, dequeued >>

capacity == Pow2(order_)

mask_ == Pow2(order_) - 1

ZeroMetrics ==
    [enqueue_calls |-> 0, dequeue_calls |-> 0, read_cxl_tail |-> 0,
     queue_full |-> 0, no_new_items |-> 0, checksum_failed |-> 0,
     flush_tail |-> 0,
     consumer_backoff_events |-> 0, consumer_backoff_cycles_waited |-> 0,
     producer_backoff_events |-> 0, producer_backoff_cycles_waited |-> 0]

\* no benchmark process is running
NoShake ==
    [producer_ready |-> 0, consumer_ready |-> 0, start_signal |-> 0,
     ppos |-> "off", cpos |-> "off", consumed |-> 0]

\* no allocator has been created
NoBump ==
    [base_addr_ |-> ZeroWord, end_addr_ |-> ZeroWord, cur_addr_ |-> ZeroWord,
     blocks |-> << >>, thrown |-> FALSE, calls |-> 0,
     request |-> [bytes |-> ZeroWord, alignment |-> ZeroWord]]

\* the members of a queue object just constructed over its own memory
NewQueue(order) ==
    [ring_ |-> [i \in 0..(Pow2(order) - 1) |-> ZeroEntry],
     cxl_tail_ |-> 0, head_ |-> 0, shadow_tail_ |-> 0, tail_ |-> 0,
     metrics |-> ZeroMetrics]

\* ------------------------------------------------------------------------
\*  Construction
\* ------------------------------------------------------------------------
Init ==
    /\ order_ \in 0..MaxOrder
    /\ ring_ = [i \in 0..(Pow2(order_) - 1) |-> ZeroEntry]
    /\ cxl_tail_ = 0
    /\ head_ = 0
    /\ shadow_tail_ = 0
    /\ tail_ = 0
    /\ metrics = ZeroMetrics
    /\ backoff_full = MIN_WAIT_FULL
    /\ backoff_empty = MIN_WAIT_EMPTY
    /\ backoff_checksum = MIN_WAIT_CHECKSUM
    /\ ppc = "idle"
    /\ in = ZeroEntry
    /\ pend = {}
    /\ out = ZeroEntry
    /\ last = [op |-> "none", ok |-> FALSE]
    /\ enqueued = << >>
    /\ dequeued = << >>
    /\ built = [producer |-> "init", consumer |-> "init"]
    /\ align = << 0, 0 >>
    /\ warm = 0
    /\ peer = NewQueue(order_)
    /\ shake = NoShake
    /\ bump = NoBump

\* ------------------------------------------------------------------------
\*  Backoff
\* ------------------------------------------------------------------------
\* faulty variant of PauseNext: the cap at MAX_WAIT_CYCLES left out
PauseNextNoCap(current_wait) == current_wait * 2

\* current_wait after ExponentialBackoff::pause
PauseNext(current_wait) == Min(current_wait * 2, MAX_WAIT_CYCLES)

\* failed calls so far (caps the retries of the callers)
Fails == metrics.queue_full + metrics.no_new_items + metrics.checksum_failed

\* ------------------------------------------------------------------------
\*  Callers' entries
\* ------------------------------------------------------------------------
\* 0xAA55AA55AA55AA55 (args of test_checksum_logic): its halfwords fold to 0
WordA == <<43605, 43605, 43605, 43605>>

\* 0x0000000000000001: folds to 1
WordB == <<1, 0, 0, 0>>

PayloadWords == {WordA, WordB}

\* epoch / checksum left in the caller's entry object by an earlier use
StaleStamps == {<<0, 0>>, <<1, 48879>>}

MkEntry(a, id, st) ==
    [args |-> [i \in 1..7 |-> IF i = 1 THEN a ELSE ZeroWord],
     meta |-> [epoch |-> st[1], rpc_method |-> 7, rpc_id |-> id % 65536,
               seal_index |-> -123, checksum |-> st[2]]]

\* the i-th entry a producer thread submits: rpc_id = i, payload of its choice
CallerEntries(i) == { MkEntry(a, i, st) : a \in PayloadWords, st \in StaleStamps }

\* the i-th entry of the single-threaded test loops
SeqCallerEntries(i) ==
    { MkEntry(IF i % 2 = 0 THEN WordA ELSE WordB, i, st) : st \in StaleStamps }

\* ------------------------------------------------------------------------
\*  enqueue
\* ------------------------------------------------------------------------
\* faulty variant of IsFull: '>' written for '>='
IsFullOffByOne(slot, st) == (slot - st) > capacity

\* faulty variant of IsFull: the operands of the subtraction swapped
IsFullSwapped(slot, st) == (st - slot) >= capacity

\* static_cast<int32_t>(slot - shadow_tail_) >= static_cast<int32_t>(cap)
IsFull(slot, st) == (slot - st) >= capacity

\* faulty variant of EpochOf: the '+ 1' left out
EpochOfNoPlusOne(x) == (x \div Pow2(order_)) % 256

\* faulty variant of EpochOf: a phase bit in place of the wrap count
EpochOfPhaseBit(x) == ((x \div Pow2(order_)) % 2) + 1

\* faulty variant of EpochOf: the '>> order_' left out
EpochOfNoShift(x) == ((x % 256) + 1) % 256

\* static_cast<uint8_t>(x >> order_) + 1, stored in a uint8_t
EpochOf(x) == (((x \div Pow2(order_)) % 256) + 1) % 256

\* faulty variant of Stamp: the checksum field not zeroed before the fold
StampKeepsChecksum(e, slot) ==
    LET e1 == [e EXCEPT !.meta.epoch = EpochOf(slot)]
    IN  [e1 EXCEPT !.meta.checksum = xor_checksum64(e1)]

\* epoch, then checksum = 0, then checksum = xor_checksum64(&in)
Stamp(e, slot) ==
    LET e1 == [e EXCEPT !.meta.epoch = EpochOf(slot), !.meta.checksum = 0]
    IN  [e1 EXCEPT !.meta.checksum = xor_checksum64(e1)]

\* the slot with the words in S already replaced by those of the new line
Mix(old, new, S) ==
    [args |-> [i \in 1..7 |-> IF i \in S THEN new.args[i] ELSE old.args[i]],
     meta |-> IF 8 \in S THEN new.meta ELSE old.meta]

\* faulty variant of EnqueueMetrics: a rejected call probes the shared tail twice
EnqueueMetricsInnerRetry(fast_full, still_full) ==
    [metrics EXCEPT
        !.enqueue_calls = @ + 1,
        !.read_cxl_tail = IF still_full THEN @ + 2 ELSE IF fast_full THEN @ + 1 ELSE @,
        !.queue_full = IF still_full THEN @ + 1 ELSE @,
        !.producer_backoff_events = IF still_full THEN @ + 1 ELSE @,
        !.producer_backoff_cycles_waited = IF still_full THEN @ + backoff_full ELSE @]

\* faulty variant of EnqueueMetrics: queue_full counted when the shadow looks
\* full, before the refresh
EnqueueMetricsFullAtProbe(fast_full, still_full) ==
    [metrics EXCEPT
        !.enqueue_calls = @ + 1,
        !.read_cxl_tail = IF fast_full THEN @ + 1 ELSE @,
        !.queue_full = IF fast_full THEN @ + 1 ELSE @,
        !.producer_backoff_events = IF still_full THEN @ + 1 ELSE @,
        !.producer_backoff_cycles_waited = IF still_full THEN @ + backoff_full ELSE @]

\* metrics of an enqueue call
EnqueueMetrics(fast_full, still_full) ==
    [metrics EXCEPT
        !.enqueue_calls = @ + 1,
        !.read_cxl_tail = IF fast_full THEN @ + 1 ELSE @,
        !.queue_full = IF still_full THEN @ + 1 ELSE @,
        !.producer_backoff_events = IF still_full THEN @ + 1 ELSE @,
        !.producer_backoff_cycles_waited = IF still_full THEN @ + backoff_full ELSE @]

\* enqueue up to the point where the line is handed to store_nt_64B, or the
\* whole call when it returns false
EnqueueBegin(entries, maxEnq, maxFail) ==
    /\ built.producer = "init"
    /\ ppc = "idle"
    /\ \E e \in entries :
        LET slot       == head_
            fast_full  == IsFull(slot, shadow_tail_)
            st         == IF fast_full THEN cxl_tail_ ELSE shadow_tail_
            still_full == fast_full /\ IsFull(slot, st)
            stamped    == Stamp(e, slot)
        IN  /\ shadow_tail_' = st
            /\ metrics' = EnqueueMetrics(fast_full, still_full)
            /\ IF still_full
               THEN /\ Fails < maxFail
                    /\ backoff_full' = PauseNext(backoff_full)
                    /\ in' = e
                    /\ last' = [op |-> "enqueue", ok |-> FALSE]
                    /\ UNCHANGED << ppc, pend >>
               ELSE /\ head_ < maxEnq
                    /\ backoff_full' = MIN_WAIT_FULL
                    /\ in' = stamped
                    /\ ppc' = "publish"
                    /\ pend' = { i \in 1..8 :
                                   LineWord(in', i) #
                                   LineWord(ring_[BitAnd(slot, mask_)], i) }
                    /\ UNCHANGED last
    /\ UNCHANGED << ring_, head_, enqueued >>
    /\ UNCHANGED << ctorVars, peer, shake, bump >>
    /\ UNCHANGED consVars

\* store_nt_64B: the 64-byte streaming store is not atomic; some of the
\* 8-byte words of the line become visible
PublishWords ==
    /\ ppc = "publish"
    /\ pend # {}
    /\ \E S \in (SUBSET pend) \ {{}} :
        /\ ring_' = [ring_ EXCEPT ![BitAnd(head_, mask_)] = Mix(@, in, S)]
        /\ pend' = pend \ S
    /\ UNCHANGED << head_, shadow_tail_, metrics, backoff_full, ppc,
                    in, last, enqueued >>
    /\ UNCHANGED << ctorVars, peer, shake, bump >>
    /\ UNCHANGED consVars

\* after the fences: head_.store(slot + 1), return true
EnqueueFinish ==
    /\ ppc = "publish"
    /\ pend = {}
    /\ head_' = head_ + 1
    /\ ppc' = "idle"
    /\ last' = [op |-> "enqueue", ok |-> TRUE]
    /\ enqueued' = Append(enqueued, in)
    /\ UNCHANGED << ring_, shadow_tail_, metrics, backoff_full, in, pend >>
    /\ UNCHANGED << ctorVars, peer, shake, bump >>
    /\ UNCHANGED consVars

\* faulty variant of EnqueueCall: a successful call leaves backoff_full as it is
EnqueueCallNoReset(entries, maxEnq, maxFail) ==
    /\ built.producer = "init"
    /\ ppc = "idle"
    /\ \E e \in entries :
        LET slot       == head_
            fast_full  == IsFull(slot, shadow_tail_)
            st         == IF fast_full THEN cxl_tail_ ELSE shadow_tail_
            still_full == fast_full /\ IsFull(slot, st)
            stamped    == Stamp(e, slot)
        IN  /\ shadow_tail_' = st
            /\ metrics' = EnqueueMetrics(fast_full, still_full)
            /\ IF still_full
               THEN /\ Fails < maxFail
                    /\ backoff_full' = PauseNext(backoff_full)
                    /\ in' = e
                    /\ last' = [op |-> "enqueue", ok |-> FALSE]
                    /\ UNCHANGED << ring_, head_, enqueued >>
               ELSE /\ head_ < maxEnq
                    /\ backoff_full' = backoff_full
                    /\ in' = stamped
                    /\ ring_' = [ring_ EXCEPT ![BitAnd(slot, mask_)] = in']
                    /\ head_' = slot + 1
                    /\ last' = [op |-> "enqueue", ok |-> TRUE]
                    /\ enqueued' = Append(enqueued, in')
    /\ UNCHANGED << ppc, pend >>
    /\ UNCHANGED << ctorVars, peer, shake, bump >>
    /\ UNCHANGED consVars

\* a whole enqueue call with no dequeue running beside it
EnqueueCall(entries, maxEnq, maxFail) ==
    /\ built.producer = "init"
    /\ ppc = "idle"
    /\ \E e \in entries :
        LET slot       == head_
            fast_full  == IsFull(slot, shadow_tail_)
            st         == IF fast_full THEN cxl_tail_ ELSE shadow_tail_
            still_full == fast_full /\ IsFull(slot, st)
            stamped    == Stamp(e, slot)
        IN  /\ shadow_tail_' = st
            /\ metrics' = EnqueueMetrics(fast_full, still_full)
            /\ IF still_full
               THEN /\ Fails < maxFail
                    /\ backoff_full' = PauseNext(backoff_full)
                    /\ in' = e
                    /\ last' = [op |-> "enqueue", ok |-> FALSE]
                    /\ UNCHANGED << ring_, head_, enqueued >>
               ELSE /\ head_ < maxEnq
                    /\ backoff_full' = MIN_WAIT_FULL
                    /\ in' = stamped
                    /\ ring_' = [ring_ EXCEPT ![BitAnd(slot, mask_)] = in']
                    /\ head_' = slot + 1
                    /\ last' = [op |-> "enqueue", ok |-> TRUE]
                    /\ enqueued' = Append(enqueued, in')
    /\ UNCHANGED << ppc, pend >>
    /\ UNCHANGED << ctorVars, peer, shake, bump >>
    /\ UNCHANGED consVars

\* ------------------------------------------------------------------------
\*  dequeue
\* ------------------------------------------------------------------------
\* faulty variant of flush_interval: an eighth of the capacity instead of a quarter
flush_interval_eighth == Max(1, Pow2(order_) \div 8)

\* faulty variant of flush_interval: half the capacity instead of a quarter
flush_interval_half == Max(1, Pow2(order_) \div 2)

\* std::max(1u, (1u << order_) / 4)
flush_interval == Max(1, Pow2(order_) \div 4)

\* faulty variant of FlushDue: the tail written back once per two laps of the ring
FlushDueEveryTwoLaps(t) == BitAnd(t, 2 * capacity - 1) = 0

\* faulty variant of FlushDue: the tail written back once per lap of the ring
FlushDueOncePerLap(t) == BitAnd(t, mask_) = 0

\* faulty variant of FlushDue: the '- 1' of the mask left out
FlushDueWrongMask(t) == BitAnd(t, flush_interval) = 0

\* (tail_ & (flush_interval - 1)) == 0
FlushDue(t) == BitAnd(t, flush_interval - 1) = 0

\* faulty variant of TailAfterChecksumFail: the torn slot is skipped
TailAfterChecksumFailSkip(t) == t + 1

\* tail_ after a dequeue that failed the checksum
TailAfterChecksumFail(t) == t

\* out.meta.f.epoch != expected_epoch
EpochMismatch(line, t) == line.meta.epoch # EpochOf(t)

\* faulty variant of DequeueMetrics: the consumer's pauses counted in the
\* producer's backoff counters
DequeueMetricsProducerBackoff(res, flushed) ==
    [metrics EXCEPT
        !.dequeue_calls = @ + 1,
        !.no_new_items = IF res = "empty" THEN @ + 1 ELSE @,
        !.checksum_failed = IF res = "checksum" THEN @ + 1 ELSE @,
        !.flush_tail = IF flushed THEN @ + 1 ELSE @,
        !.producer_backoff_events = IF res # "ok" THEN @ + 1 ELSE @,
        !.producer_backoff_cycles_waited =
            IF res = "empty" THEN @ + backoff_empty
            ELSE IF res = "checksum" THEN @ + backoff_checksum
            ELSE @]

\* metrics of a dequeue call; res is "empty", "checksum" or "ok"
DequeueMetrics(res, flushed) ==
    [metrics EXCEPT
        !.dequeue_calls = @ + 1,
        !.no_new_items = IF res = "empty" THEN @ + 1 ELSE @,
        !.checksum_failed = IF res = "checksum" THEN @ + 1 ELSE @,
        !.flush_tail = IF flushed THEN @ + 1 ELSE @,
        !.consumer_backoff_events = IF res # "ok" THEN @ + 1 ELSE @,
        !.consumer_backoff_cycles_waited =
            IF res = "empty" THEN @ + backoff_empty
            ELSE IF res = "checksum" THEN @ + backoff_checksum
            ELSE @]

\* faulty variant of Dequeue: the consumer zeroes the slot it has taken
DequeueClearsSlot(maxFail) ==
    /\ built.consumer \in {"init", "attach"}
    /\ \E line \in { ring_[BitAnd(tail_, mask_)] } :            \* load_fresh_64B
       \E res \in { IF EpochMismatch(line, tail_) THEN "empty"
                    ELSE IF ~verify_checksum(line) THEN "checksum"
                    ELSE "ok" } :
           /\ out' = line
           /\ IF res = "empty"
              THEN /\ Fails < maxFail
                   /\ metrics' = DequeueMetrics(res, FALSE)
                   /\ backoff_empty' = PauseNext(backoff_empty)
                   /\ last' = [op |-> "dequeue", ok |-> FALSE]
                   /\ UNCHANGED << tail_, cxl_tail_, backoff_checksum, dequeued >>
              ELSE IF res = "checksum"
              THEN /\ Fails < maxFail
                   /\ metrics' = DequeueMetrics(res, FALSE)
                   /\ backoff_checksum' = PauseNext(backoff_checksum)
                   /\ tail_' = TailAfterChecksumFail(tail_)
                   /\ last' = [op |-> "dequeue", ok |-> FALSE]
                   /\ UNCHANGED << cxl_tail_, backoff_empty, dequeued >>
              ELSE /\ tail_' = tail_ + 1
                   /\ backoff_empty' = MIN_WAIT_EMPTY
                   /\ backoff_checksum' = MIN_WAIT_CHECKSUM
                   /\ metrics' = DequeueMetrics(res, FlushDue(tail_ + 1))
                   /\ cxl_tail_' = IF FlushDue(tail_ + 1) THEN tail_ + 1 ELSE cxl_tail_   \* flush_tail
                   /\ last' = [op |-> "dequeue", ok |-> TRUE]
                   /\ dequeued' = Append(dequeued, line)
           /\ ring_' = IF res = "ok"
                        THEN [ring_ EXCEPT ![BitAnd(tail_, mask_)] = ZeroEntry]
                        ELSE ring_
           /\ UNCHANGED << head_, shadow_tail_, backoff_full, ppc,
                           in, pend, enqueued >>
           /\ UNCHANGED << ctorVars, peer, shake, bump >>

\* faulty variant of Dequeue: one backoff object for both kinds of failure
DequeueOneBackoff(maxFail) ==
    /\ built.consumer \in {"init", "attach"}
    /\ \E line \in { ring_[BitAnd(tail_, mask_)] } :            \* load_fresh_64B
       \E res \in { IF EpochMismatch(line, tail_) THEN "empty"
                    ELSE IF ~verify_checksum(line) THEN "checksum"
                    ELSE "ok" } :
           /\ out' = line
           /\ IF res = "empty"
              THEN /\ Fails < maxFail
                   /\ metrics' = DequeueMetrics(res, FALSE)
                   /\ backoff_empty' = PauseNext(backoff_empty)
                   /\ last' = [op |-> "dequeue", ok |-> FALSE]
                   /\ UNCHANGED << tail_, cxl_tail_, backoff_checksum, dequeued >>
              ELSE IF res = "checksum"
              THEN /\ Fails < maxFail
                   /\ metrics' = DequeueMetrics(res, FALSE)
                   /\ backoff_empty' = PauseNext(backoff_empty)
                   /\ tail_' = TailAfterChecksumFail(tail_)
                   /\ last' = [op |-> "dequeue", ok |-> FALSE]
                   /\ UNCHANGED << cxl_tail_, backoff_checksum, dequeued >>
              ELSE /\ tail_' = tail_ + 1
                   /\ backoff_empty' = MIN_WAIT_EMPTY
                   /\ backoff_checksum' = MIN_WAIT_CHECKSUM
                   /\ metrics' = DequeueMetrics(res, FlushDue(tail_ + 1))
                   /\ cxl_tail_' = IF FlushDue(tail_ + 1) THEN tail_ + 1 ELSE cxl_tail_   \* flush_tail
                   /\ last' = [op |-> "dequeue", ok |-> TRUE]
                   /\ dequeued' = Append(dequeued, line)
           /\ UNCHANGED << ring_, head_, shadow_tail_, backoff_full, ppc,
                           in, pend, enqueued >>
           /\ UNCHANGED << ctorVars, peer, shake, bump >>

\* variant: the slot is loaded into a temporary and copied to the caller's
\* entry on success only (as the oldest cxl_mpsc_queue.cpp does)
DequeueViaTmp(maxFail) ==
    /\ built.consumer \in {"init", "attach"}
    /\ \E line \in { ring_[BitAnd(tail_, mask_)] } :            \* load_fresh_64B
       \E res \in { IF EpochMismatch(line, tail_) THEN "empty"
                    ELSE IF ~verify_checksum(line) THEN "checksum"
                    ELSE "ok" } :
           /\ out' = IF res = "ok" THEN line ELSE out
           /\ IF res = "empty"
              THEN /\ Fails < maxFail
                   /\ metrics' = DequeueMetrics(res, FALSE)
                   /\ backoff_empty' = PauseNext(backoff_empty)
                   /\ last' = [op |-> "dequeue", ok |-> FALSE]
                   /\ UNCHANGED << tail_, cxl_tail_, backoff_checksum, dequeued >>
              ELSE IF res = "checksum"
              THEN /\ Fails < maxFail
                   /\ metrics' = DequeueMetrics(res, FALSE)
                   /\ backoff_checksum' = PauseNext(backoff_checksum)
                   /\ tail_' = TailAfterChecksumFail(tail_)
                   /\ last' = [op |-> "dequeue", ok |-> FALSE]
                   /\ UNCHANGED << cxl_tail_, backoff_empty, dequeued >>
              ELSE /\ tail_' = tail_ + 1
                   /\ backoff_empty' = MIN_WAIT_EMPTY
                   /\ backoff_checksum' = MIN_WAIT_CHECKSUM
                   /\ metrics' = DequeueMetrics(res, FlushDue(tail_ + 1))
                   /\ cxl_tail_' = IF FlushDue(tail_ + 1) THEN tail_ + 1 ELSE cxl_tail_   \* flush_tail
                   /\ last' = [op |-> "dequeue", ok |-> TRUE]
                   /\ dequeued' = Append(dequeued, line)
           /\ UNCHANGED << ring_, head_, shadow_tail_, backoff_full, ppc,
                           in, pend, enqueued >>
           /\ UNCHANGED << ctorVars, peer, shake, bump >>

\* dequeue: one whole call (the consumer shares nothing it reads twice)
Dequeue(maxFail) ==
    /\ built.consumer \in {"init", "attach"}
    /\ \E line \in { ring_[BitAnd(tail_, mask_)] } :            \* load_fresh_64B
       \E res \in { IF EpochMismatch(line, tail_) THEN "empty"
                    ELSE IF ~verify_checksum(line) THEN "checksum"
                    ELSE "ok" } :
           /\ out' = line
           /\ IF res = "empty"
              THEN /\ Fails < maxFail
                   /\ metrics' = DequeueMetrics(res, FALSE)
                   /\ backoff_empty' = PauseNext(backoff_empty)
                   /\ last' = [op |-> "dequeue", ok |-> FALSE]
                   /\ UNCHANGED << tail_, cxl_tail_, backoff_checksum, dequeued >>
              ELSE IF res = "checksum"
              THEN /\ Fails < maxFail
                   /\ metrics' = DequeueMetrics(res, FALSE)
                   /\ backoff_checksum' = PauseNext(backoff_checksum)
                   /\ tail_' = TailAfterChecksumFail(tail_)
                   /\ last' = [op |-> "dequeue", ok |-> FALSE]
                   /\ UNCHANGED << cxl_tail_, backoff_empty, dequeued >>
              ELSE /\ tail_' = tail_ + 1
                   /\ backoff_empty' = MIN_WAIT_EMPTY
                   /\ backoff_checksum' = MIN_WAIT_CHECKSUM
                   /\ metrics' = DequeueMetrics(res, FlushDue(tail_ + 1))
                   /\ cxl_tail_' = IF FlushDue(tail_ + 1) THEN tail_ + 1 ELSE cxl_tail_   \* flush_tail
                   /\ last' = [op |-> "dequeue", ok |-> TRUE]
                   /\ dequeued' = Append(dequeued, line)
           /\ UNCHANGED << ring_, head_, shadow_tail_, backoff_full, ppc,
                           in, pend, enqueued >>
           /\ UNCHANGED << ctorVars, peer, shake, bump >>

\* ------------------------------------------------------------------------
\*  Specifications
\* ------------------------------------------------------------------------
\* one producer thread and one consumer thread running side by side
ProducerStart == EnqueueBegin(CallerEntries(head_), MaxEnq, MaxFail)

ConsumerDequeue == Dequeue(MaxFail)

Next ==
    \/ ProducerStart
    \/ PublishWords
    \/ EnqueueFinish
    \/ ConsumerDequeue

Spec == Init /\ [][Next]_vars

\* one thread calling enqueue and dequeue in turn (the unit tests)
SeqEnqueue == EnqueueCall(SeqCallerEntries(head_), SeqMaxEnq, SeqMaxFail)

SeqDequeue == Dequeue(SeqMaxFail)

SeqNext ==
    \/ SeqEnqueue
    \/ SeqDequeue

SpecSeq == Init /\ [][SeqNext]_vars


\* ------------------------------------------------------------------------
\*  Properties
\* ------------------------------------------------------------------------
\* the lines handed to store_nt_64B so far, in order: those of the calls
\* that returned true and the one being published
Produced == IF ppc = "publish" THEN Append(enqueued, in) ELSE enqueued

\* C1 -- FIFO under SPSC: the k-th successful dequeue returns exactly the
\* k-th enqueued entry; the dequeued sequence is always a prefix of the
\* enqueued sequence.
C1_FifoPrefix ==
    /\ Len(dequeued) <= Len(Produced)
    /\ \A k \in 1..Len(dequeued) : dequeued[k] = Produced[k]

\* C2 -- No loss and no duplication: once as many dequeues as enqueues have
\* completed, every enqueued entry occurs in the dequeued sequence exactly once.
C2_NoLossNoDup ==
    (ppc = "idle" /\ Len(dequeued) = Len(enqueued)) =>
        \A k \in 1..Len(enqueued) :
            Cardinality({ j \in 1..Len(dequeued) : dequeued[j] = enqueued[k] }) = 1

\* C3 -- No spurious success: the entry a dequeue returns with true is the
\* argument of an enqueue, and its epoch is ((tail_at_dequeue >> order) + 1) mod 256.
C3_NoSpuriousSuccess ==
    (last.op = "dequeue" /\ last.ok) =>
        /\ \E k \in 1..Len(Produced) : Produced[k] = out
        /\ out.meta.epoch = (((tail_ - 1) \div Pow2(order_)) + 1) % 256

\* C4 -- Torn-read protection: every line dequeue accepted is, word for word,
\* a complete line the producer published, never a mixture of two lines.
C4_TornReadProtection ==
    \A j \in 1..Len(dequeued) :
        \E k \in 1..Len(Produced) :
            \A i \in 1..8 : LineWord(dequeued[j], i) = LineWord(Produced[k], i)

\* C5 -- Full rejection: with 2^k entries enqueued and none dequeued, every
\* enqueue call returns false and modifies no ring slot.
C5_FullRejection ==
    [][ (head_ = Pow2(order_) /\ tail_ = 0 /\
         metrics'.enqueue_calls # metrics.enqueue_calls)
        => /\ last' = [op |-> "enqueue", ok |-> FALSE]
           /\ ppc' = "idle"
           /\ ring_' = ring_
           /\ head_' = head_ ]_vars

C5_Witness ==
    /\ head_ = Pow2(order_)
    /\ tail_ = 0
    /\ last = [op |-> "enqueue", ok |-> FALSE]
    /\ metrics.queue_full >= 2

\* C6 -- Empty rejection: with as many entries dequeued as enqueued (none
\* after construction included) and no enqueue running, dequeue returns false.
C6_EmptyRejection ==
    [][ (head_ = tail_ /\ ppc = "idle" /\
         metrics'.dequeue_calls # metrics.dequeue_calls)
        => /\ last' = [op |-> "dequeue", ok |-> FALSE]
           /\ tail_' = tail_
           /\ dequeued' = dequeued ]_vars

C6_Witness ==
    /\ head_ = tail_
    /\ ppc = "idle"
    /\ head_ >= 2 * Pow2(order_)
    /\ head_ % Pow2(order_) = 0
    /\ last = [op |-> "dequeue", ok |-> FALSE]
    /\ metrics.no_new_items >= 1

\* C7 -- Failure leaves shared state untouched: an enqueue that returns false
\* changes no ring slot, nor the shared tail line, nor head; a dequeue that
\* returns false changes no ring slot, nor the shared tail line, nor tail.
\* Only backoff state, metrics and (for enqueue) shadow_tail change.
C7_FailureFrame ==
    [][ /\ (/\ metrics'.enqueue_calls # metrics.enqueue_calls
            /\ ppc' = "idle"
            /\ last' = [op |-> "enqueue", ok |-> FALSE])
           => UNCHANGED << order_, ring_, cxl_tail_, head_, tail_,
                           backoff_empty, backoff_checksum >>
        /\ (/\ metrics'.dequeue_calls # metrics.dequeue_calls
            /\ last' = [op |-> "dequeue", ok |-> FALSE])
           => UNCHANGED << order_, ring_, cxl_tail_, head_, tail_,
                           shadow_tail_, backoff_full >> ]_vars

C7_Witness ==
    /\ last = [op |-> "dequeue", ok |-> FALSE]
    /\ metrics.checksum_failed >= 1
    /\ metrics.queue_full >= 1

\* C8 -- Round trip: a dequeued entry carries the payload, rpc_method, rpc_id
\* and seal_index of the matching enqueued entry.
C8_RoundTrip ==
    \A k \in 1..Len(dequeued) :
        /\ k <= Len(Produced)
        /\ dequeued[k].args = Produced[k].args
        /\ dequeued[k].meta.rpc_method = Produced[k].meta.rpc_method
        /\ dequeued[k].meta.rpc_id = Produced[k].meta.rpc_id
        /\ dequeued[k].meta.seal_index = Produced[k].meta.seal_index

\* C9 -- Reuse across wraps: over sequences of whole calls, an enqueue made
\* with fewer than 2^k entries outstanding and the shared tail up to date
\* succeeds, the entries are delivered in FIFO order across the wrap, and
\* each delivered entry carries the epoch of its own wrap.
C9_ReuseAcrossWraps ==
    [][ /\ (/\ head_ - tail_ < Pow2(order_)
            /\ cxl_tail_ = tail_
            /\ metrics'.enqueue_calls # metrics.enqueue_calls)
           => /\ last' = [op |-> "enqueue", ok |-> TRUE]
              /\ head_' = head_ + 1
        /\ Len(dequeued') <= Len(enqueued')
        /\ \A k \in 1..Len(dequeued') :
              /\ dequeued'[k] = enqueued'[k]
              /\ dequeued'[k].meta.epoch =
                    (((k - 1) \div Pow2(order_)) + 1) % 256 ]_vars

C9_Witness ==
    /\ order_ = 2
    /\ Len(dequeued) >= 4 * Pow2(order_)
    /\ head_ = tail_
    /\ metrics.queue_full >= 1

\* C10 -- Tail-flush cadence: after N successful dequeues tail_flushes is
\* floor(N / max(1, 2^k / 4)); a flush happens on exactly the successful
\* dequeues that bring tail to a multiple of max(1, 2^k / 4), never on a
\* failed one, and publishes tail.
C10_TailFlushCadence ==
    [][ LET F == IF Pow2(order_) \div 4 >= 1 THEN Pow2(order_) \div 4 ELSE 1
        IN  /\ metrics'.flush_tail = tail_' \div F
            /\ (metrics'.flush_tail # metrics.flush_tail)
                 <=> (tail_' = tail_ + 1 /\ tail_' % F = 0)
            /\ (metrics'.flush_tail # metrics.flush_tail)
                 => (metrics'.flush_tail = metrics.flush_tail + 1 /\ cxl_tail_' = tail_')
            /\ (metrics'.flush_tail = metrics.flush_tail)
                 => cxl_tail_' = cxl_tail_ ]_vars

C10_Witness ==
    /\ order_ = 3
    /\ tail_ = 3
    /\ metrics.flush_tail = 1
    /\ cxl_tail_ = 2
    /\ metrics.no_new_items >= 1
    /\ metrics.checksum_failed >= 1

\* ------------------------------------------------------------------------
\*  Checksum of a crafted entry (test_checksum_logic, stand-alone part)
\* ------------------------------------------------------------------------
\* args[i] = 0x1111111111111111 * (i + 1), rpc_method 7, rpc_id 77,
\* seal_index -123, value-initialised otherwise
CraftedEntry ==
    [args |-> [i \in 1..7 |-> << 4369 * i, 4369 * i, 4369 * i, 4369 * i >>],
     meta |-> [epoch |-> 0, rpc_method |-> 7, rpc_id |-> 77,
               seal_index |-> -123, checksum |-> 0]]

\* the entries the checksum is tried on: the crafted one and callers' entries
\* with and without stale stamps
CkEntries ==
    {CraftedEntry, ZeroEntry} \cup CallerEntries(0) \cup CallerEntries(65535)

\* checksum = 0, then checksum = xor_checksum64(&e)
Seal(e) ==
    LET e1 == [e EXCEPT !.meta.checksum = 0]
    IN  [e1 EXCEPT !.meta.checksum = xor_checksum64(e1)]

\* an int16_t from its two's-complement halfword
AsInt16(v) == IF v >= 32768 THEN v - 65536 ELSE v

\* the line with bit b (0..15) of halfword h (1..4) of word w (1..8) flipped
FlipBit(e, w, h, b) ==
    IF w <= 7
    THEN [e EXCEPT !.args[w][h] = BitXor(@, Pow2(b))]
    ELSE LET v == BitXor(MetaWord(e.meta)[h], Pow2(b))
         IN  IF h = 1 THEN [e EXCEPT !.meta.epoch = v % 256,
                                     !.meta.rpc_method = v \div 256]
             ELSE IF h = 2 THEN [e EXCEPT !.meta.rpc_id = v]
             ELSE IF h = 3 THEN [e EXCEPT !.meta.seal_index = AsInt16(v)]
             ELSE [e EXCEPT !.meta.checksum = v]

InitCk ==
    /\ order_ = 0
    /\ ring_ = [i \in 0..0 |-> ZeroEntry]
    /\ cxl_tail_ = 0
    /\ head_ = 0
    /\ shadow_tail_ = 0
    /\ tail_ = 0
    /\ metrics = ZeroMetrics
    /\ backoff_full = MIN_WAIT_FULL
    /\ backoff_empty = MIN_WAIT_EMPTY
    /\ backoff_checksum = MIN_WAIT_CHECKSUM
    /\ ppc = "idle"
    /\ in \in CkEntries
    /\ pend = {}
    /\ out = ZeroEntry
    /\ last = [op |-> "none", ok |-> FALSE]
    /\ enqueued = << >>
    /\ dequeued = << >>
    /\ built = [producer |-> "init", consumer |-> "init"]
    /\ align = << 0, 0 >>
    /\ warm = 0
    /\ peer = NewQueue(order_)
    /\ shake = NoShake
    /\ bump = NoBump

\* e.meta.f.checksum = xor_checksum64(&e); verify_checksum(&e)
CkSeal ==
    /\ last.op = "none"
    /\ in' = Seal(in)
    /\ last' = [op |-> "seal", ok |-> verify_checksum(in')]
    /\ UNCHANGED << ring_, cxl_tail_, head_, shadow_tail_, tail_, metrics,
                    backoff_full, backoff_empty, backoff_checksum, ppc, pend,
                    out, enqueued, dequeued >>
    /\ UNCHANGED << ctorVars, peer, shake, bump >>

\* one bit of the sealed line flipped; verify_checksum(&e)
CkFlip ==
    /\ last.op = "seal"
    /\ \E w \in 1..8, h \in 1..4, b \in 0..15 :
        /\ out' = FlipBit(in, w, h, b)
        /\ last' = [op |-> "flip", ok |-> verify_checksum(out')]
    /\ UNCHANGED << ring_, cxl_tail_, head_, shadow_tail_, tail_, metrics,
                    backoff_full, backoff_empty, backoff_checksum, ppc, in,
                    pend, enqueued, dequeued >>
    /\ UNCHANGED << ctorVars, peer, shake, bump >>

NextCk ==
    \/ CkSeal
    \/ CkFlip

SpecCk == InitCk /\ [][NextCk]_vars

\* C11 -- Checksum is a zero-fold: once checksum was set to 0 and the fold
\* of the entry stored into it, the entry folds to zero (verify_checksum is
\* true); with any single bit of such an entry flipped the fold is non-zero
\* (verify_checksum is false).
C11_ChecksumZeroFold ==
    /\ (last.op \in {"seal", "flip"}) => (xor_checksum64(in) = 0)
    /\ (last.op = "seal") => last.ok
    /\ (last.op = "flip") => (~last.ok /\ xor_checksum64(out) # 0)

C11_Witness ==
    /\ last = [op |-> "flip", ok |-> FALSE]
    /\ in = Seal(CraftedEntry)
    /\ out.args[1][3] = 4113
    /\ out.args[1][1] = 4369

\* ------------------------------------------------------------------------
\*  A slot corrupted in the ring (test_checksum_logic, queue-integrated part)
\* ------------------------------------------------------------------------
CorMaxEnq == 3
CorMaxFail == 2

\* << word, halfword, bit >> of the payload bits the harness flips;
\* << 1, 1, 0 >> is  env.ring[1].args[0] ^= 0x1
CorruptBits == { << 1, 1, 0 >>, << 7, 4, 15 >> }

\* a payload bit of an enqueued, not yet dequeued entry is flipped in the ring
CorruptSlot ==
    /\ ppc = "idle"
    /\ \E s \in tail_..(head_ - 1), p \in CorruptBits :
        /\ verify_checksum(ring_[BitAnd(s, mask_)])
        /\ ring_' = [ring_ EXCEPT ![BitAnd(s, mask_)] = FlipBit(@, p[1], p[2], p[3])]
    /\ UNCHANGED << cxl_tail_, head_, shadow_tail_, tail_, metrics,
                    backoff_full, backoff_empty, backoff_checksum, ppc, in,
                    pend, out, last, enqueued, dequeued >>
    /\ UNCHANGED << ctorVars, peer, shake, bump >>

CorEnqueue == EnqueueCall(SeqCallerEntries(head_), CorMaxEnq, CorMaxFail)

CorDequeue == Dequeue(CorMaxFail)

CorNext ==
    \/ CorEnqueue
    \/ CorruptSlot
    \/ CorDequeue

SpecCorrupt == Init /\ [][CorNext]_vars

\* C12 -- Corrupted slot is rejected: when the slot at tail carries the
\* expected epoch but its 64 bytes do not fold to zero, dequeue returns
\* false, counts one checksum failure and leaves tail where it was, so the
\* next call examines the same slot again.
C12_CorruptedSlotRejected ==
    [][ LET line == ring_[tail_ % Pow2(order_)]
        IN  (/\ line.meta.epoch = ((tail_ \div Pow2(order_)) + 1) % 256
             /\ xor_checksum64(line) # 0
             /\ metrics'.dequeue_calls # metrics.dequeue_calls)
            => /\ last' = [op |-> "dequeue", ok |-> FALSE]
               /\ metrics'.checksum_failed = metrics.checksum_failed + 1
               /\ metrics'.no_new_items = metrics.no_new_items
               /\ tail_' = tail_
               /\ dequeued' = dequeued
               /\ ring_' = ring_
               /\ out' = line ]_vars

C12_Witness ==
    /\ last = [op |-> "dequeue", ok |-> FALSE]
    /\ metrics.checksum_failed >= 2
    /\ tail_ = 1
    /\ order_ >= 1
    /\ ring_[1].meta.epoch = 1
    /\ ring_[1] = FlipBit(enqueued[2], 1, 1, 0)
    /\ out = ring_[1]

\* C13 -- Single-writer ownership: after construction a ring slot changes
\* only inside enqueue and never in a dequeue; the shared tail line changes
\* only in the tail flush of a dequeue and never in an enqueue.  No step of
\* enqueue changes tail, no dequeue changes head or shadow_tail.
C13_SingleWriter ==
    [][ LET enq == \/ metrics'.enqueue_calls # metrics.enqueue_calls
                   \/ ppc = "publish" /\ (pend' # pend \/ ppc' # ppc)
            deq == metrics'.dequeue_calls # metrics.dequeue_calls
        IN  /\ (ring_' # ring_) => (enq /\ ~deq)
            /\ (cxl_tail_' # cxl_tail_) =>
                  /\ deq /\ ~enq
                  /\ metrics'.flush_tail = metrics.flush_tail + 1
                  /\ cxl_tail_' = tail_'
            /\ enq => UNCHANGED << tail_, cxl_tail_ >>
            /\ deq => UNCHANGED << ring_, head_, shadow_tail_ >> ]_vars

C13_Witness ==
    /\ order_ = 1
    /\ head_ = 3
    /\ tail_ = 3
    /\ cxl_tail_ = 3
    /\ shadow_tail_ = 1
    /\ ring_[0].meta.epoch = 2
    /\ ring_[0] = enqueued[3]
    /\ metrics.queue_full >= 1

\* ------------------------------------------------------------------------
\*  Construction over memory that held something before
\* ------------------------------------------------------------------------
BuildMaxEnq == 8
BuildMaxFail == 2

\* a line of 0xFF bytes
OnesEntry ==
    [args |-> [i \in 1..7 |-> << 65535, 65535, 65535, 65535 >>],
     meta |-> [epoch |-> 255, rpc_method |-> 255, rpc_id |-> 65535,
               seal_index |-> -1, checksum |-> 65535]]

\* what a slot may hold before the queue is built: zeroes, a sealed line of
\* the first wrap left by an earlier run, or ones
GarbageLines ==
    { ZeroEntry,
      Seal([MkEntry(WordB, 9, << 1, 0 >>) EXCEPT !.meta.epoch = 1]),
      OnesEntry }

\* the memory and the pointers as the caller hands them to the constructor;
\* no queue object exists yet, its storage is indeterminate
InitRaw ==
    /\ order_ \in 0..MaxOrder
    /\ \E g \in GarbageLines : ring_ = [i \in 0..(Pow2(order_) - 1) |-> g]
    /\ cxl_tail_ \in {0, 5}
    /\ \E j \in {0, 7} : head_ = j /\ shadow_tail_ = j /\ tail_ = j
    /\ align \in { << 0, 0 >>, << 8, 0 >>, << 0, 8 >> }
    /\ built = [producer |-> "none", consumer |-> "none"]
    /\ warm = 0
    /\ peer = NewQueue(order_)
    /\ shake = NoShake
    /\ bump = NoBump
    /\ metrics = ZeroMetrics
    /\ backoff_full = MIN_WAIT_FULL
    /\ backoff_empty = MIN_WAIT_EMPTY
    /\ backoff_checksum = MIN_WAIT_CHECKSUM
    /\ ppc = "idle"
    /\ in = ZeroEntry
    /\ pend = {}
    /\ out = ZeroEntry
    /\ last = [op |-> "none", ok |-> FALSE]
    /\ enqueued = << >>
    /\ dequeued = << >>

\* faulty variant of MemsetRing: the memset left out
MemsetRingSkipped(r) == r

\* std::memset(ring_, 0, sizeof(Entry) * (1u << order_))
MemsetRing(r) == [i \in DOMAIN r |-> ZeroEntry]

\* CxlMpscQueue(ring, order_log2, cxl_tail): the two asserts (kept by the
\* documented builds, which do not define NDEBUG), then the initialisation.
\* The object serves both sides (the tests) or the producer only (the owner
\* process of the two-process benchmark).
ConstructInit ==
    /\ built.producer = "none"
    /\ \E both \in BOOLEAN :
        IF align # << 0, 0 >>
        THEN /\ built' = [producer |-> "abort", consumer |-> "abort"]
             /\ UNCHANGED << ring_, cxl_tail_, head_, shadow_tail_, tail_ >>
        ELSE /\ built' = [producer |-> "init",
                          consumer |-> IF both THEN "init" ELSE "none"]
             /\ head_' = 0
             /\ shadow_tail_' = 0
             /\ tail_' = 0
             /\ ring_' = MemsetRing(ring_)
             /\ cxl_tail_' = tail_'                    \* store_nt_u64(cxl_tail_, tail_)
    /\ UNCHANGED << order_, align, warm, metrics, backoff_full, backoff_empty,
                    backoff_checksum, ppc, in, pend, out, last, enqueued,
                    dequeued, peer, shake, bump >>

\* faulty variant of AttachedRing: the attaching side zeroes the ring as well
AttachedRingZeroed(r) == [i \in DOMAIN r |-> ZeroEntry]

\* secondary attach: the ring is taken as the owner left it
AttachedRing(r) == r

\* secondary attach: the shared tail line is taken as the owner left it
AttachedTail(t) == t

\* CxlMpscQueue(ring, ORDER, tail_cxl, /*do_initialize=*/false) of the
\* consumer process, after the owner signalled producer_ready
ConstructAttach ==
    /\ built.producer = "init"
    /\ built.consumer = "none"
    /\ ppc = "idle"
    /\ built' = [built EXCEPT !.consumer = "attach"]
    /\ tail_' = 0
    /\ ring_' = AttachedRing(ring_)
    /\ cxl_tail_' = AttachedTail(cxl_tail_)
    /\ warm' = head_
    /\ UNCHANGED << order_, align, head_, shadow_tail_, metrics, backoff_full,
                    backoff_empty, backoff_checksum, ppc, in, pend, out, last,
                    enqueued, dequeued, peer, shake, bump >>

BuildEnqueue == EnqueueCall(SeqCallerEntries(head_), BuildMaxEnq, BuildMaxFail)

BuildDequeue == Dequeue(BuildMaxFail)

BuildNext ==
    \/ ConstructInit
    \/ ConstructAttach
    \/ BuildEnqueue
    \/ BuildDequeue

SpecBuild == InitRaw /\ [][BuildNext]_vars

\* C14 -- Initialising construction yields an empty queue whatever the
\* memory held before: right after the constructor every ring slot is all
\* zero, the shared tail is 0 and head = shadow_tail = tail = 0; the first
\* dequeue returns false and the first 2^order enqueue calls succeed.
C14_InitialisingConstruction ==
    [][ /\ (built.producer = "none" /\ built'.producer = "init")
           => /\ \A i \in DOMAIN ring_' : \A w \in 1..8 :
                     LineWord(ring_'[i], w) = << 0, 0, 0, 0 >>
              /\ cxl_tail_' = 0
              /\ head_' = 0 /\ shadow_tail_' = 0 /\ tail_' = 0
        /\ (/\ built.consumer = "init"
            /\ metrics.enqueue_calls = 0 /\ metrics.dequeue_calls = 0
            /\ metrics'.dequeue_calls = 1)
           => (last' = [op |-> "dequeue", ok |-> FALSE] /\ tail_' = 0)
        /\ (/\ built.producer = "init"
            /\ metrics.enqueue_calls < Pow2(order_)
            /\ metrics'.enqueue_calls # metrics.enqueue_calls)
           => /\ last' = [op |-> "enqueue", ok |-> TRUE]
              /\ head_' = metrics.enqueue_calls + 1 ]_vars

C14_Witness ==
    /\ built = [producer |-> "init", consumer |-> "init"]
    /\ order_ = 3
    /\ head_ = 8
    /\ metrics.enqueue_calls = 8
    /\ metrics.no_new_items = 1
    /\ metrics.dequeue_calls = 1
    /\ tail_ = 0

\* C15 -- Secondary attach does not initialise: the construction of the
\* attaching side leaves every ring slot and the shared tail line as they
\* were, and the entries the owner had enqueued by then (the warm-up) are
\* delivered to the attaching consumer, in order.
C15_AttachKeepsState ==
    [][ /\ (built.consumer = "none" /\ built'.consumer = "attach")
           => (ring_' = ring_ /\ cxl_tail_' = cxl_tail_)
        /\ (/\ built.consumer = "attach"
            /\ tail_ < warm
            /\ metrics'.dequeue_calls # metrics.dequeue_calls)
           => /\ last' = [op |-> "dequeue", ok |-> TRUE]
              /\ out' = enqueued[tail_ + 1]
              /\ dequeued' = Append(dequeued, enqueued[tail_ + 1]) ]_vars

C15_Witness ==
    /\ built = [producer |-> "init", consumer |-> "attach"]
    /\ order_ = 3
    /\ warm = 2
    /\ Len(dequeued) = 2
    /\ dequeued[1] = enqueued[1]
    /\ dequeued[2] = enqueued[2]
    /\ dequeued[2].meta.rpc_id = 1

\* C16 -- Construction rejects bad sizing or alignment: a construction with
\* order < 8, or with a ring pointer or shared-tail pointer that is not
\* 64-byte aligned, aborts and yields no usable queue object.
C16_ConstructionRejects ==
    [][ (/\ built.producer = "none"
         /\ built' # built
         /\ (order_ < 8 \/ align[1] # 0 \/ align[2] # 0))
        => built' = [producer |-> "abort", consumer |-> "abort"] ]_vars

\* ------------------------------------------------------------------------
\*  Two threads retrying until LiveN entries went through
\* ------------------------------------------------------------------------
LiveN == 4
LiveMaxFail == 2

\* producer thread:  for i < N:  while (!q.enqueue(e)) {}
LiveProducerStart == EnqueueBegin(SeqCallerEntries(head_), LiveN, LiveMaxFail)

LiveProducer ==
    \/ LiveProducerStart
    \/ PublishWords
    \/ EnqueueFinish

\* consumer thread:  while (seen < N)  if (q.dequeue(e)) ++seen;
LiveConsumer ==
    /\ Len(dequeued) < LiveN
    /\ Dequeue(LiveMaxFail)

LiveNext ==
    \/ LiveProducer
    \/ LiveConsumer

\* both threads are scheduled again and again
SpecLive ==
    /\ Init
    /\ [][LiveNext]_vars
    /\ WF_vars(LiveProducer)
    /\ WF_vars(LiveConsumer)

\* C17 -- Progress under retry: with the producer re-invoking enqueue until
\* each of N entries is accepted and the consumer re-invoking dequeue until
\* it has N entries, under weak fairness of both threads both loops end:
\* eventually the producer has enqueued N and the consumer holds N, for every
\* ring order, N larger than the capacity included.
C17_Progress ==
    <>(Len(dequeued) = LiveN /\ Len(enqueued) = LiveN /\ ppc = "idle")

C17_Witness ==
    /\ order_ = 0
    /\ Len(dequeued) = LiveN
    /\ head_ = LiveN
    /\ tail_ = LiveN
    /\ metrics.queue_full >= 1
    /\ metrics.no_new_items >= 1

\* ------------------------------------------------------------------------
\*  Whole calls over more than 256 wraps of the smallest ring
\* ------------------------------------------------------------------------
WrapMaxEnq == 258

\* the 1-slot ring is run past the wrap of the epoch byte, the larger rings
\* as far as in SpecSeq
WrapEnqueue ==
    EnqueueCall(SeqCallerEntries(head_),
                IF order_ = 0 THEN WrapMaxEnq ELSE SeqMaxEnq, SeqMaxFail)

WrapDequeue == Dequeue(SeqMaxFail)

WrapNext ==
    \/ WrapEnqueue
    \/ WrapDequeue

SpecWrap == Init /\ [][WrapNext]_vars

\* C18 -- Epoch rule: the epoch enqueue stamps into the entry written for
\* producer sequence number w is ((w >> order) + 1) mod 256 and the epoch
\* dequeue expects at consumer sequence number t is ((t >> order) + 1) mod
\* 256; so the epoch written into a slot differs from the one the previous
\* wrap left there, and during the first wrap from the zero of the
\* initialised ring.
C18_EpochRule ==
    [][ LET cap == Pow2(order_)
            w   == head_
            t   == tail_
        IN  /\ (head_' = w + 1)
               => /\ ring_'[w % cap].meta.epoch = ((w \div cap) + 1) % 256
                  /\ in'.meta.epoch = ((w \div cap) + 1) % 256
                  /\ ring_'[w % cap].meta.epoch # ring_[w % cap].meta.epoch
                  /\ (w >= cap) => ring_[w % cap].meta.epoch = (w \div cap) % 256
                  /\ (w < cap) => (ring_[w % cap].meta.epoch = 0 /\
                                   ring_'[w % cap].meta.epoch # 0)
            /\ (metrics'.dequeue_calls # metrics.dequeue_calls)
               => /\ (metrics'.no_new_items # metrics.no_new_items)
                       <=> (out'.meta.epoch # ((t \div cap) + 1) % 256)
                  /\ (tail_' = t + 1)
                       => (out'.meta.epoch = ((t \div cap) + 1) % 256) ]_vars

C18_Witness ==
    /\ order_ = 0
    /\ head_ = 257
    /\ tail_ = 256
    /\ ring_[0].meta.epoch = 1
    /\ out.meta.epoch = 0
    /\ last = [op |-> "enqueue", ok |-> TRUE]

C20_NoOverwrite ==
    /\ head_ - tail_ <= Pow2(order_)
    /\ (ppc = "publish") => (head_ - tail_ < Pow2(order_))
    /\ (ppc = "publish" /\ head_ >= Pow2(order_)) =>
          /\ Len(dequeued) >= head_ - Pow2(order_) + 1
          /\ head_ - shadow_tail_ < Pow2(order_)

C20_Witness ==
    /\ ppc = "publish"
    /\ head_ >= Pow2(order_)
    /\ pend # {}
    /\ ring_[head_ % Pow2(order_)] # enqueued[head_ - Pow2(order_) + 1]
    /\ shadow_tail_ < tail_
    /\ head_ - tail_ < head_ - shadow_tail_

\* ------------------------------------------------------------------------
\*  C21: the shared tail is read lazily and at most once per call
\* ------------------------------------------------------------------------
\* C21 -- Lazy tail observation with no inner retry: an enqueue call reads
\* the shared tail line only if head - shadow_tail >= capacity at entry, and
\* then exactly once (the shadow becomes the value read); a call that returns
\* false performs exactly one shared-tail read, counts exactly one queue-full
\* event and pauses the producer backoff exactly once; a call that finds room
\* without refresh reads nothing and keeps its shadow.
C21_LazyTailRead ==
    [][ (metrics'.enqueue_calls # metrics.enqueue_calls) =>
        LET looked_full == (head_ - shadow_tail_) >= Pow2(order_)
            reads       == metrics'.read_cxl_tail - metrics.read_cxl_tail
            rejected    == ppc' = "idle" /\ head_' = head_
        IN  /\ metrics'.enqueue_calls = metrics.enqueue_calls + 1
            /\ reads = (IF looked_full THEN 1 ELSE 0)
            /\ shadow_tail_' = (IF looked_full THEN cxl_tail_ ELSE shadow_tail_)
            /\ rejected =>
                 /\ reads = 1
                 /\ metrics'.queue_full = metrics.queue_full + 1
                 /\ metrics'.producer_backoff_events =
                        metrics.producer_backoff_events + 1
                 /\ metrics'.producer_backoff_cycles_waited =
                        metrics.producer_backoff_cycles_waited + backoff_full
                 /\ backoff_full' = (IF 2 * backoff_full < MAX_WAIT_CYCLES
                                      THEN 2 * backoff_full ELSE MAX_WAIT_CYCLES)
            /\ ~rejected =>
                 /\ metrics'.queue_full = metrics.queue_full
                 /\ metrics'.producer_backoff_events =
                        metrics.producer_backoff_events
                 /\ metrics'.producer_backoff_cycles_waited =
                        metrics.producer_backoff_cycles_waited
      ]_vars

\* one refresh that found room and one that did not, and calls that read nothing
C21_Witness ==
    /\ metrics.read_cxl_tail = 2
    /\ metrics.queue_full = 1
    /\ metrics.enqueue_calls = 4
    /\ last = [op |-> "enqueue", ok |-> TRUE]

\* ------------------------------------------------------------------------
\*  ExponentialBackoff on its own: pause and reset of the three sites
\* ------------------------------------------------------------------------
BoMaxPause == 10

\* pauses taken so far (caps the run)
BoPauses == metrics.producer_backoff_events + metrics.consumer_backoff_events

\* backoff_full.pause(producer_backoff_events, producer_backoff_cycles_waited)
BoPauseFull ==
    /\ BoPauses < BoMaxPause
    /\ metrics' = [metrics EXCEPT
                      !.producer_backoff_events = @ + 1,
                      !.producer_backoff_cycles_waited = @ + backoff_full]
    /\ backoff_full' = PauseNext(backoff_full)
    /\ UNCHANGED << backoff_empty, backoff_checksum >>
    /\ UNCHANGED << ring_, cxl_tail_, head_, shadow_tail_, tail_, ppc, in,
                    pend, out, last, enqueued, dequeued >>
    /\ UNCHANGED << ctorVars, peer, shake, bump >>

\* backoff_empty.pause(consumer_backoff_events, consumer_backoff_cycles_waited)
BoPauseEmpty ==
    /\ BoPauses < BoMaxPause
    /\ metrics' = [metrics EXCEPT
                      !.consumer_backoff_events = @ + 1,
                      !.consumer_backoff_cycles_waited = @ + backoff_empty]
    /\ backoff_empty' = PauseNext(backoff_empty)
    /\ UNCHANGED << backoff_full, backoff_checksum >>
    /\ UNCHANGED << ring_, cxl_tail_, head_, shadow_tail_, tail_, ppc, in,
                    pend, out, last, enqueued, dequeued >>
    /\ UNCHANGED << ctorVars, peer, shake, bump >>

\* backoff_checksum.pause(consumer_backoff_events, consumer_backoff_cycles_waited)
BoPauseChecksum ==
    /\ BoPauses < BoMaxPause
    /\ metrics' = [metrics EXCEPT
                      !.consumer_backoff_events = @ + 1,
                      !.consumer_backoff_cycles_waited = @ + backoff_checksum]
    /\ backoff_checksum' = PauseNext(backoff_checksum)
    /\ UNCHANGED << backoff_full, backoff_empty >>
    /\ UNCHANGED << ring_, cxl_tail_, head_, shadow_tail_, tail_, ppc, in,
                    pend, out, last, enqueued, dequeued >>
    /\ UNCHANGED << ctorVars, peer, shake, bump >>

\* backoff_full.reset()
BoResetFull ==
    /\ backoff_full' = MIN_WAIT_FULL
    /\ UNCHANGED << backoff_empty, backoff_checksum, metrics >>
    /\ UNCHANGED << ring_, cxl_tail_, head_, shadow_tail_, tail_, ppc, in,
                    pend, out, last, enqueued, dequeued >>
    /\ UNCHANGED << ctorVars, peer, shake, bump >>

\* backoff_empty.reset()
BoResetEmpty ==
    /\ backoff_empty' = MIN_WAIT_EMPTY
    /\ UNCHANGED << backoff_full, backoff_checksum, metrics >>
    /\ UNCHANGED << ring_, cxl_tail_, head_, shadow_tail_, tail_, ppc, in,
                    pend, out, last, enqueued, dequeued >>
    /\ UNCHANGED << ctorVars, peer, shake, bump >>

\* backoff_checksum.reset()
BoResetChecksum ==
    /\ backoff_checksum' = MIN_WAIT_CHECKSUM
    /\ UNCHANGED << backoff_full, backoff_empty, metrics >>
    /\ UNCHANGED << ring_, cxl_tail_, head_, shadow_tail_, tail_, ppc, in,
                    pend, out, last, enqueued, dequeued >>
    /\ UNCHANGED << ctorVars, peer, shake, bump >>

BoNext ==
    \/ BoPauseFull
    \/ BoPauseEmpty
    \/ BoPauseChecksum
    \/ BoResetFull
    \/ BoResetEmpty
    \/ BoResetChecksum

SpecBackoff == Init /\ [][BoNext]_vars

\* C22 -- Backoff schedule: for each site (min_wait 128, 50, 100; max_wait
\* 16384) pause() adds 1 to the event counter and the pre-doubling
\* current_wait to the cycles-waited counter, then sets current_wait to
\* min(2 * current_wait, max_wait); reset() sets current_wait to min_wait;
\* so min_wait <= current_wait <= max_wait after any sequence of the two.
C22_BackoffSchedule ==
    /\ [](/\ 128 <= backoff_full /\ backoff_full <= 16384
          /\ 50 <= backoff_empty /\ backoff_empty <= 16384
          /\ 100 <= backoff_checksum /\ backoff_checksum <= 16384)
    /\ [][ LET Doubled(w) == IF 2 * w < 16384 THEN 2 * w ELSE 16384
               pe  == metrics.producer_backoff_events
               pc  == metrics.producer_backoff_cycles_waited
               ce  == metrics.consumer_backoff_events
               cc  == metrics.consumer_backoff_cycles_waited
               pe2 == metrics'.producer_backoff_events
               pc2 == metrics'.producer_backoff_cycles_waited
               ce2 == metrics'.consumer_backoff_events
               cc2 == metrics'.consumer_backoff_cycles_waited
           IN  /\ IF pe2 # pe
                  THEN /\ pe2 = pe + 1
                       /\ pc2 = pc + backoff_full
                       /\ backoff_full' = Doubled(backoff_full)
                  ELSE /\ pc2 = pc
                       /\ backoff_full' \in {backoff_full, 128}
               /\ IF ce2 # ce
                  THEN /\ ce2 = ce + 1
                       /\ \/ /\ cc2 = cc + backoff_empty
                             /\ backoff_empty' = Doubled(backoff_empty)
                             /\ backoff_checksum' = backoff_checksum
                          \/ /\ cc2 = cc + backoff_checksum
                             /\ backoff_checksum' = Doubled(backoff_checksum)
                             /\ backoff_empty' = backoff_empty
                  ELSE /\ cc2 = cc
                       /\ backoff_empty' \in {backoff_empty, 50}
                       /\ backoff_checksum' \in {backoff_checksum, 100}
         ]_vars

\* the empty site driven to the cap (12800 -> 16384, not 25600) by nine
\* pauses, and one pause of the full site beside it
C22_Witness ==
    /\ backoff_empty = 16384
    /\ metrics.consumer_backoff_events = 9
    /\ metrics.consumer_backoff_cycles_waited = 50 * 511
    /\ backoff_full = 256
    /\ metrics.producer_backoff_cycles_waited = 128
    /\ backoff_checksum = 100

\* ------------------------------------------------------------------------
\*  A producer spinning on a full ring: long runs of rejected calls
\* ------------------------------------------------------------------------
PressMaxFail == 8

PressExtraEnq == 1

\* while (!q.enqueue(e)) { }
PressEnqueue ==
    EnqueueCall(SeqCallerEntries(head_), Pow2(order_) + PressExtraEnq, PressMaxFail)

\* while (!q.dequeue(e)) { }
PressDequeue == Dequeue(PressMaxFail)

PressNext ==
    \/ PressEnqueue
    \/ PressDequeue

SpecPress == Init /\ [][PressNext]_vars

\* C23 -- Producer backoff growth: every rejected enqueue waits the current
\* producer wait and leaves min(2 * wait, 16384), which is never less; no
\* dequeue touches the producer wait; every enqueue that returns true leaves
\* 128.  So the waits of consecutive rejected calls never decrease and the
\* first rejected call after a successful one waits exactly 128 cycles.
C23_ProducerBackoffGrowth ==
    /\ []((last = [op |-> "enqueue", ok |-> TRUE]) => backoff_full = 128)
    /\ [][ IF metrics'.enqueue_calls = metrics.enqueue_calls
           THEN backoff_full' = backoff_full
           ELSE IF head_' = head_ + 1
           THEN backoff_full' = 128
           ELSE /\ metrics'.producer_backoff_cycles_waited =
                       metrics.producer_backoff_cycles_waited + backoff_full
                /\ backoff_full' >= backoff_full
                /\ backoff_full' = (IF 2 * backoff_full < 16384
                                     THEN 2 * backoff_full ELSE 16384)
         ]_vars

\* a successful enqueue after eight rejected ones in a row (the eighth
\* waited 16384), with the wait back at 128
C23_Witness ==
    /\ metrics.queue_full = 8
    /\ metrics.producer_backoff_cycles_waited = 128 * 255
    /\ last = [op |-> "enqueue", ok |-> TRUE]
    /\ backoff_full = 128
    /\ head_ = Pow2(order_) + 1

\* ------------------------------------------------------------------------
\*  C24: the two consumer backoffs
\* ------------------------------------------------------------------------
\* C24 -- Independent consumer backoffs: a dequeue that fails on epoch
\* mismatch pauses and doubles only the empty-backoff (min 50) and leaves the
\* checksum-backoff wait unchanged; a dequeue that fails on checksum pauses
\* and doubles only the checksum-backoff (min 100) and leaves the
\* empty-backoff wait unchanged; a successful dequeue resets both.
C24_IndependentBackoffs ==
    [][ (metrics'.dequeue_calls # metrics.dequeue_calls) =>
        LET line       == ring_[tail_ % Pow2(order_)]
            expected   == (((tail_ \div Pow2(order_)) % 256) + 1) % 256
            Doubled(w) == IF 2 * w < 16384 THEN 2 * w ELSE 16384
            waited     == metrics'.consumer_backoff_cycles_waited -
                          metrics.consumer_backoff_cycles_waited
        IN  IF line.meta.epoch # expected
            THEN /\ tail_' = tail_
                 /\ metrics'.no_new_items = metrics.no_new_items + 1
                 /\ waited = backoff_empty
                 /\ backoff_empty' = Doubled(backoff_empty)
                 /\ backoff_checksum' = backoff_checksum
            ELSE IF xor_checksum64(line) # 0
            THEN /\ tail_' = tail_
                 /\ metrics'.checksum_failed = metrics.checksum_failed + 1
                 /\ waited = backoff_checksum
                 /\ backoff_checksum' = Doubled(backoff_checksum)
                 /\ backoff_empty' = backoff_empty
            ELSE /\ tail_' = tail_ + 1
                 /\ waited = 0
                 /\ backoff_empty' = 50
                 /\ backoff_checksum' = 100
      ]_vars

\* an epoch mismatch and then a checksum failure with no success between
\* them: each site paused once, the other left alone
C24_Witness ==
    /\ metrics.no_new_items = 1
    /\ metrics.checksum_failed = 1
    /\ backoff_empty = 100
    /\ backoff_checksum = 200
    /\ metrics.consumer_backoff_cycles_waited = 150

\* ------------------------------------------------------------------------
\*  One thread using two queue objects: this one and peer
\* ------------------------------------------------------------------------
TwoMaxEnq == 2

TwoMaxFail == 2

\* failed calls on peer so far (caps the retries of the caller)
PeerFails ==
    peer.metrics.queue_full + peer.metrics.no_new_items + peer.metrics.checksum_failed

\* the waits a call on queue object q would pause with.  backoff_full,
\* backoff_empty and backoff_checksum are function-local static thread_local
\* objects of enqueue and dequeue: one of each per thread, whatever q is
WaitsOf(q) == << backoff_full, backoff_empty, backoff_checksum >>

\* peer.enqueue(e): a whole call
PeerEnqueue ==
    /\ \E e \in SeqCallerEntries(peer.head_) :
        LET slot       == peer.head_
            fast_full  == IsFull(slot, peer.shadow_tail_)
            st         == IF fast_full THEN peer.cxl_tail_ ELSE peer.shadow_tail_
            still_full == fast_full /\ IsFull(slot, st)
            stamped    == Stamp(e, slot)
            m == [peer.metrics EXCEPT
                    !.enqueue_calls = @ + 1,
                    !.read_cxl_tail = IF fast_full THEN @ + 1 ELSE @,
                    !.queue_full = IF still_full THEN @ + 1 ELSE @,
                    !.producer_backoff_events = IF still_full THEN @ + 1 ELSE @,
                    !.producer_backoff_cycles_waited =
                        IF still_full THEN @ + backoff_full ELSE @]
        IN  IF still_full
            THEN /\ PeerFails < TwoMaxFail
                 /\ backoff_full' = PauseNext(backoff_full)
                 /\ in' = e
                 /\ last' = [op |-> "enqueue", ok |-> FALSE]
                 /\ peer' = [peer EXCEPT !.shadow_tail_ = st, !.metrics = m]
            ELSE /\ slot < TwoMaxEnq
                 /\ backoff_full' = MIN_WAIT_FULL
                 /\ in' = stamped
                 /\ last' = [op |-> "enqueue", ok |-> TRUE]
                 /\ peer' = [peer EXCEPT
                               !.shadow_tail_ = st,
                               !.metrics = m,
                               !.ring_ = [@ EXCEPT ![BitAnd(slot, mask_)] = stamped],
                               !.head_ = slot + 1]
    /\ UNCHANGED << ring_, cxl_tail_, head_, shadow_tail_, tail_, metrics,
                    backoff_empty, backoff_checksum, ppc, pend, out,
                    enqueued, dequeued >>
    /\ UNCHANGED << ctorVars, shake, bump >>

\* peer.dequeue(e): a whole call
PeerDequeue ==
    /\ \E line \in { peer.ring_[BitAnd(peer.tail_, mask_)] } :
       \E res \in { IF EpochMismatch(line, peer.tail_) THEN "empty"
                    ELSE IF ~verify_checksum(line) THEN "checksum"
                    ELSE "ok" } :
        LET flushed == res = "ok" /\ FlushDue(peer.tail_ + 1)
            m == [peer.metrics EXCEPT
                    !.dequeue_calls = @ + 1,
                    !.no_new_items = IF res = "empty" THEN @ + 1 ELSE @,
                    !.checksum_failed = IF res = "checksum" THEN @ + 1 ELSE @,
                    !.flush_tail = IF flushed THEN @ + 1 ELSE @,
                    !.consumer_backoff_events = IF res # "ok" THEN @ + 1 ELSE @,
                    !.consumer_backoff_cycles_waited =
                        IF res = "empty" THEN @ + backoff_empty
                        ELSE IF res = "checksum" THEN @ + backoff_checksum
                        ELSE @]
        IN  /\ out' = line
            /\ last' = [op |-> "dequeue", ok |-> res = "ok"]
            /\ res # "ok" => PeerFails < TwoMaxFail
            /\ backoff_empty' = IF res = "empty" THEN PauseNext(backoff_empty)
                                ELSE IF res = "ok" THEN MIN_WAIT_EMPTY
                                ELSE backoff_empty
            /\ backoff_checksum' = IF res = "checksum" THEN PauseNext(backoff_checksum)
                                   ELSE IF res = "ok" THEN MIN_WAIT_CHECKSUM
                                   ELSE backoff_checksum
            /\ peer' = [peer EXCEPT
                          !.metrics = m,
                          !.tail_ = IF res = "ok" THEN @ + 1 ELSE @,
                          !.cxl_tail_ = IF flushed THEN peer.tail_ + 1 ELSE @]
    /\ UNCHANGED << ring_, cxl_tail_, head_, shadow_tail_, tail_, metrics,
                    backoff_full, ppc, in, pend, enqueued, dequeued >>
    /\ UNCHANGED << ctorVars, shake, bump >>

TwoEnqueue == EnqueueCall(SeqCallerEntries(head_), TwoMaxEnq, TwoMaxFail)

TwoDequeue == Dequeue(TwoMaxFail)

TwoNext ==
    \/ TwoEnqueue
    \/ TwoDequeue
    \/ PeerEnqueue
    \/ PeerDequeue

SpecTwo == Init /\ [][TwoNext]_vars

\* C25 -- No state shared between queue objects: when one thread uses two
\* queue objects, a call on one leaves all of the other's state unchanged,
\* including the backoff waits the other's next failed enqueue or dequeue
\* will use (a failed enqueue on one does not lengthen the other's next
\* producer wait, a successful enqueue on one does not reset the other's).
C25_NoSharedState ==
    [][ /\ (metrics' # metrics) =>
               /\ peer' = peer
               /\ WaitsOf("peer")' = WaitsOf("peer")
        /\ (peer'.metrics # peer.metrics) =>
               /\ UNCHANGED << ring_, cxl_tail_, head_, shadow_tail_, tail_, metrics >>
               /\ WaitsOf("this")' = WaitsOf("this")
      ]_vars

\* ------------------------------------------------------------------------
\*  C26, C27: the metrics block
\* ------------------------------------------------------------------------
\* the counters enqueue writes
ProducerCounters ==
    << metrics.enqueue_calls, metrics.read_cxl_tail, metrics.queue_full,
       metrics.producer_backoff_events, metrics.producer_backoff_cycles_waited >>

\* the counters dequeue writes
ConsumerCounters ==
    << metrics.dequeue_calls, metrics.no_new_items, metrics.checksum_failed,
       metrics.flush_tail, metrics.consumer_backoff_events,
       metrics.consumer_backoff_cycles_waited >>

\* C26 -- Metrics are role-private: enqueue changes only the producer-side
\* counters (enqueue_calls, read_cxl_tail, queue_full, producer backoff
\* events and cycles), dequeue only the consumer-side counters
\* (dequeue_calls, no_new_items, checksum_failed, flush_tail, consumer
\* backoff events and cycles); no counter is written by both operations.
C26_MetricsRolePrivate ==
    [][ /\ (ProducerCounters' # ProducerCounters) =>
               /\ metrics'.enqueue_calls = metrics.enqueue_calls + 1
               /\ ConsumerCounters' = ConsumerCounters
               /\ UNCHANGED << tail_, out, dequeued >>
        /\ (ConsumerCounters' # ConsumerCounters) =>
               /\ metrics'.dequeue_calls = metrics.dequeue_calls + 1
               /\ ProducerCounters' = ProducerCounters
               /\ UNCHANGED << head_, in, enqueued >>
      ]_vars

\* both sides have counted calls, failures and pauses, and the tail was flushed
C26_Witness ==
    /\ metrics.queue_full = 1
    /\ metrics.read_cxl_tail = 1
    /\ metrics.producer_backoff_cycles_waited = 128
    /\ metrics.checksum_failed = 1
    /\ metrics.consumer_backoff_cycles_waited = 100
    /\ metrics.flush_tail = 1
    /\ metrics.enqueue_calls = 3
    /\ metrics.dequeue_calls = 2

\* C27 -- Metrics accounting: every counter is monotonically non-decreasing
\* and, after any sequence of operations (a call still inside its 64-byte
\* store counted apart), enqueue_calls = enqueues that returned true +
\* queue_full; queue_full <= read_cxl_tail <= enqueue_calls;
\* producer_backoff_events = queue_full; dequeue_calls = dequeues that
\* returned true + no_new_items + checksum_failed; consumer_backoff_events =
\* no_new_items + checksum_failed.
C27_MetricsAccounting ==
    /\ [](/\ metrics.enqueue_calls =
                Len(enqueued) + metrics.queue_full + (IF ppc = "publish" THEN 1 ELSE 0)
          /\ metrics.queue_full <= metrics.read_cxl_tail
          /\ metrics.read_cxl_tail <= metrics.enqueue_calls
          /\ metrics.producer_backoff_events = metrics.queue_full
          /\ metrics.dequeue_calls =
                Len(dequeued) + metrics.no_new_items + metrics.checksum_failed
          /\ metrics.consumer_backoff_events =
                metrics.no_new_items + metrics.checksum_failed)
    /\ [][ \A c \in DOMAIN metrics : metrics'[c] >= metrics[c] ]_vars

\* all calls returned; a refresh that found room (reads above queue_full),
\* a rejected enqueue, a checksum failure and successes on both sides
C27_Witness ==
    /\ ppc = "idle"
    /\ metrics.queue_full = 1
    /\ metrics.read_cxl_tail = 2
    /\ metrics.enqueue_calls = 3
    /\ Len(enqueued) = 2
    /\ metrics.checksum_failed = 1
    /\ Len(dequeued) = 1
    /\ metrics.dequeue_calls = 2

\* ------------------------------------------------------------------------
\*  C28: the caller's entry
\* ------------------------------------------------------------------------
\* C28 -- In-place stamping: a successful enqueue modifies the caller's entry
\* in place so that afterwards its epoch equals ((head_before >> order) + 1)
\* mod 256 and its checksum makes the 64-byte fold zero, whatever epoch and
\* checksum the caller passed in, the other fields being kept; the line in
\* the ring is that entry; an enqueue that returns false leaves the caller's
\* entry completely unchanged.
C28_InPlaceStamping ==
    [][ (metrics'.enqueue_calls # metrics.enqueue_calls) =>
        IF head_' = head_ + 1
        THEN /\ in'.meta.epoch = ((head_ \div Pow2(order_)) + 1) % 256
             /\ xor_checksum64(in') = 0
             /\ \E e \in SeqCallerEntries(head_) :
                    /\ in'.args = e.args
                    /\ in'.meta.rpc_method = e.meta.rpc_method
                    /\ in'.meta.rpc_id = e.meta.rpc_id
                    /\ in'.meta.seal_index = e.meta.seal_index
             /\ ring_'[head_ % Pow2(order_)] = in'
        ELSE /\ head_' = head_
             /\ in' \in SeqCallerEntries(head_)
      ]_vars

\* an entry stamped for the second lap, and before it a rejected call whose
\* entry kept the stamps it came with
C28_Witness ==
    /\ last = [op |-> "enqueue", ok |-> TRUE]
    /\ metrics.queue_full >= 1
    /\ head_ = Pow2(order_) + 1
    /\ in.meta.epoch = 2
    /\ in.meta.checksum # 0
    /\ in = ring_[0]

C30_RejectionThreshold ==
    /\ []((last = [op |-> "enqueue", ok |-> FALSE]) =>
            LET F == IF Pow2(order_) \div 4 > 1 THEN Pow2(order_) \div 4 ELSE 1
            IN  /\ head_ = Pow2(order_) + (tail_ \div F) * F
                /\ head_ - tail_ > Pow2(order_) - F
                /\ Pow2(order_) - (head_ - tail_) <= F - 1)
    /\ [][ (metrics'.enqueue_calls # metrics.enqueue_calls) =>
            LET F == IF Pow2(order_) \div 4 > 1 THEN Pow2(order_) \div 4 ELSE 1
            IN  (head_' = head_) <=> (head_ - (tail_ \div F) * F >= Pow2(order_))
         ]_vars

\* capacity 8, F = 2: the ring was filled, three entries were dequeued, two
\* further enqueues succeeded and the next one was rejected with a slot free
C30_Witness ==
    /\ order_ = 3
    /\ last = [op |-> "enqueue", ok |-> FALSE]
    /\ tail_ = 3
    /\ head_ = 10
    /\ metrics.queue_full = 1

\* ------------------------------------------------------------------------
\*  C31: producer and consumer are never both refused
\* ------------------------------------------------------------------------
\* C31 -- No mutual starvation: in no reachable quiescent state (no call in
\* progress) would both a call to enqueue and a call to dequeue return
\* false; whenever the producer is refused because of a stale shared tail,
\* the ring holds at least one entry that dequeue will accept.
C31_NoMutualStarvation ==
    (ppc = "idle") =>
        LET line     == ring_[tail_ % Pow2(order_)]
            expected == ((tail_ \div Pow2(order_)) + 1) % 256
            refused  == /\ head_ - shadow_tail_ >= Pow2(order_)
                        /\ head_ - cxl_tail_ >= Pow2(order_)
            accepted == line.meta.epoch = expected /\ xor_checksum64(line) = 0
        IN  refused => (tail_ < head_ /\ accepted)

\* capacity 8, F = 2: the producer was refused with one slot free, the shared
\* tail being one behind; the consumer has seven entries to take
C31_Witness ==
    /\ order_ = 3
    /\ last = [op |-> "enqueue", ok |-> FALSE]
    /\ head_ = 10
    /\ tail_ = 3
    /\ cxl_tail_ = 2
    /\ ring_[3].meta.epoch = 1
    /\ ring_[3].meta.rpc_id = 3

\* ------------------------------------------------------------------------
\*  C32: how far the consumer can run ahead of the producer's head
\* ------------------------------------------------------------------------
\* C32 -- Consumer may lead the local head by at most one: tail never
\* exceeds the number of slots whose publication has completed, and
\* tail <= head + 1 holds in every reachable state, with tail = head + 1
\* possible only between a slot's publication (all of its 64 bytes visible)
\* and the producer's head store.
C32_ConsumerLead ==
    /\ tail_ <= head_ + 1
    /\ tail_ <= head_ + (IF ppc = "publish" /\ pend = {} THEN 1 ELSE 0)

\* ------------------------------------------------------------------------
\*  C33 -- Output buffer on failure: dequeue loads the slot at tail into the
\*  caller's out entry before it checks epoch and checksum, so after a call
\*  that returns false out holds the raw 64 bytes of that slot as they were
\*  visible (stale, zero or torn), not the caller's previous content.
\* ------------------------------------------------------------------------
C33_OutOverwrittenOnFailure ==
    [][ (/\ metrics'.dequeue_calls # metrics.dequeue_calls
         /\ last' = [op |-> "dequeue", ok |-> FALSE])
        => /\ out' = ring_[tail_ % Pow2(order_)]
           /\ ring_' = ring_ ]_vars

\* a failed dequeue left a torn line in out: the epoch of the entry being
\* published, a payload word still missing, and not the caller's entry
C33_Witness ==
    /\ last = [op |-> "dequeue", ok |-> FALSE]
    /\ ppc = "publish"
    /\ pend # {}
    /\ out = ring_[tail_ % Pow2(order_)]
    /\ out.meta.epoch = ((tail_ \div Pow2(order_)) + 1) % 256
    /\ xor_checksum64(out) # 0
    /\ out # in
    /\ Len(dequeued) >= 1
    /\ out # dequeued[Len(dequeued)]

\* ------------------------------------------------------------------------
\*  The counters at the end of their 32-bit range
\* ------------------------------------------------------------------------
\* In this specification head_, shadow_tail_ and tail_ hold a uint32_t as a
\* pair of 16-bit halfwords, least significant first, the shared tail line
\* and the Metrics counters hold a uint64_t as a word of four halfwords, and
\* every operation on them is the source's operation at its width.  The run
\* starts where 2^32 - k alternating enqueue / dequeue calls have left the
\* queue; enqueued and dequeued record the calls from there on.
U32MaxOrder == 2
U32MaxBack == 3
U32MaxEnq == 8
U32MaxFail == 2

\* the uint32_t value n, for 0 <= n < 65536
U32Of(n) == << n, 0 >>

\* the uint32_t value 2^32 - d, for 1 <= d <= 65536
U32Before(d) == << 65536 - d, 65535 >>

\* x + 1 on uint32_t
U32Inc(x) ==
    IF x[1] < 65535 THEN << x[1] + 1, x[2] >>
    ELSE << 0, (x[2] + 1) % 65536 >>

\* a - b on uint32_t
U32Sub(a, b) ==
    LET borrow == IF a[1] < b[1] THEN 1 ELSE 0
    IN  << (a[1] - b[1] + 65536) % 65536,
           (a[2] - b[2] - borrow + 131072) % 65536 >>

\* a & b on uint32_t
U32And(a, b) == << BitAnd(a[1], b[1]), BitAnd(a[2], b[2]) >>

\* x >> n on uint32_t, 0 <= n < 32
U32Shr(x, n) ==
    IF n <= 16
    THEN << (x[1] \div Pow2(n)) + (x[2] % Pow2(n)) * Pow2(16 - n),
            x[2] \div Pow2(n) >>
    ELSE << x[2] \div Pow2(n - 16), 0 >>

\* static_cast<int32_t>(x)
AsInt32(x) ==
    IF x[2] >= 32768 THEN (x[2] - 65536) * 65536 + x[1]
    ELSE x[2] * 65536 + x[1]

\* static_cast<uint8_t>(x)
AsUint8(x) == x[1] % 256

\* uint32_t widened to the uint64_t of the tail line
ZeroExtend(x) == << x[1], x[2], 0, 0 >>

\* static_cast<uint32_t>(load_fresh_u64(cxl_tail_))
Truncate32(w) == << w[1], w[2] >>

\* w + n on uint64_t, 0 <= n < 65536
U64Add(w, n) ==
    LET s1 == w[1] + n
        s2 == w[2] + (s1 \div 65536)
        s3 == w[3] + (s2 \div 65536)
        s4 == w[4] + (s3 \div 65536)
    IN  << s1 % 65536, s2 % 65536, s3 % 65536, s4 % 65536 >>

\* faulty variant of IsFull32: the counters compared as 64-bit values, so
\* that a head that has wrapped counts as behind the tail
IsFull32Widened(slot, st) ==
    IF slot[2] = st[2] THEN slot[1] - st[1] >= capacity
    ELSE IF slot[2] < st[2] THEN FALSE
    ELSE slot[2] - st[2] > 1 \/ 65536 + slot[1] - st[1] >= capacity

\* static_cast<int32_t>(slot - shadow_tail_) >= static_cast<int32_t>(cap)
IsFull32(slot, st) == AsInt32(U32Sub(slot, st)) >= AsInt32(U32Of(capacity))

\* static_cast<uint8_t>(x >> order_) + 1, stored in the 8-bit epoch field
EpochOf32(x) == (AsUint8(U32Shr(x, order_)) + 1) % 256

\* x & mask_
Index32(x) == U32And(x, U32Of(mask_))[1]

\* (tail_ & (flush_interval - 1)) == 0
FlushDue32(t) == U32And(t, U32Of(flush_interval - 1)) = U32Of(0)

\* epoch, then checksum = 0, then checksum = xor_checksum64(&in)
Stamp32(e, slot) ==
    LET e1 == [e EXCEPT !.meta.epoch = EpochOf32(slot), !.meta.checksum = 0]
    IN  [e1 EXCEPT !.meta.checksum = xor_checksum64(e1)]

\* the entry the test loops submit at counter value c
U32CallerEntries(c) ==
    { MkEntry(IF c[1] % 2 = 0 THEN WordA ELSE WordB, c[1], st) : st \in StaleStamps }

\* the line enqueue stored at counter value c
U32Line(c) == Stamp32(MkEntry(IF c[1] % 2 = 0 THEN WordA ELSE WordB, c[1], << 0, 0 >>), c)

\* metrics of an enqueue call, uint64_t counters
EnqueueMetrics32(fast_full, still_full) ==
    [metrics EXCEPT
        !.enqueue_calls = U64Add(@, 1),
        !.read_cxl_tail = IF fast_full THEN U64Add(@, 1) ELSE @,
        !.queue_full = IF still_full THEN U64Add(@, 1) ELSE @,
        !.producer_backoff_events = IF still_full THEN U64Add(@, 1) ELSE @,
        !.producer_backoff_cycles_waited = IF still_full THEN U64Add(@, backoff_full) ELSE @]

\* metrics of a dequeue call, uint64_t counters
DequeueMetrics32(res, flushed) ==
    [metrics EXCEPT
        !.dequeue_calls = U64Add(@, 1),
        !.no_new_items = IF res = "empty" THEN U64Add(@, 1) ELSE @,
        !.checksum_failed = IF res = "checksum" THEN U64Add(@, 1) ELSE @,
        !.flush_tail = IF flushed THEN U64Add(@, 1) ELSE @,
        !.consumer_backoff_events = IF res # "ok" THEN U64Add(@, 1) ELSE @,
        !.consumer_backoff_cycles_waited =
            IF res = "empty" THEN U64Add(@, backoff_empty)
            ELSE IF res = "checksum" THEN U64Add(@, backoff_checksum)
            ELSE @]

\* failed calls since the initial state (caps the retries of the callers)
Fails32 == metrics.queue_full[1] + metrics.no_new_items[1] + metrics.checksum_failed[1]

\* the queue after h = 2^32 - k calls of enqueue, each followed by a dequeue:
\* slot c & mask_ holds the line of the last c < h, the producer refreshed
\* its shadow at every multiple of the capacity, the consumer flushed at
\* every multiple of the flush interval
InitU32 ==
    /\ order_ \in 0..U32MaxOrder
    /\ \E k \in 1..U32MaxBack :
        LET h     == U32Before(k)
            prev  == U32Before(k + 1)
            lastc(i) == CHOOSE c \in { U32Before(d) : d \in (k + 1)..(k + Pow2(order_)) } :
                            Index32(c) = i
        IN  /\ head_ = h
            /\ tail_ = h
            /\ ring_ = [i \in 0..(Pow2(order_) - 1) |-> U32Line(lastc(i))]
            /\ shadow_tail_ = U32Sub(prev, U32And(prev, U32Of(mask_)))
            /\ cxl_tail_ = ZeroExtend(U32Sub(h, U32And(h, U32Of(flush_interval - 1))))
            /\ metrics = [enqueue_calls |-> ZeroExtend(h),
                          dequeue_calls |-> ZeroExtend(h),
                          read_cxl_tail |-> ZeroExtend(U32Shr(prev, order_)),
                          queue_full |-> ZeroWord,
                          no_new_items |-> ZeroWord,
                          checksum_failed |-> ZeroWord,
                          flush_tail |-> ZeroExtend(U32Shr(h, Max(order_, 2) - 2)),
                          consumer_backoff_events |-> ZeroWord,
                          consumer_backoff_cycles_waited |-> ZeroWord,
                          producer_backoff_events |-> ZeroWord,
                          producer_backoff_cycles_waited |-> ZeroWord]
            /\ in = U32Line(prev)
            /\ out = U32Line(prev)
    /\ backoff_full = MIN_WAIT_FULL
    /\ backoff_empty = MIN_WAIT_EMPTY
    /\ backoff_checksum = MIN_WAIT_CHECKSUM
    /\ ppc = "idle"
    /\ pend = {}
    /\ last = [op |-> "dequeue", ok |-> TRUE]
    /\ enqueued = << >>
    /\ dequeued = << >>
    /\ built = [producer |-> "init", consumer |-> "init"]
    /\ align = << 0, 0 >>
    /\ warm = 0
    /\ peer = NewQueue(order_)
    /\ shake = NoShake
    /\ bump = NoBump

\* a whole enqueue call on the uint32_t counters
Enqueue32(maxEnq, maxFail) ==
    /\ built.producer = "init"
    /\ ppc = "idle"
    /\ \E e \in U32CallerEntries(head_) :
        LET slot       == head_
            fast_full  == IsFull32(slot, shadow_tail_)
            st         == IF fast_full THEN Truncate32(cxl_tail_) ELSE shadow_tail_
            still_full == fast_full /\ IsFull32(slot, st)
            stamped    == Stamp32(e, slot)
        IN  /\ shadow_tail_' = st
            /\ metrics' = EnqueueMetrics32(fast_full, still_full)
            /\ IF still_full
               THEN /\ Fails32 < maxFail
                    /\ backoff_full' = PauseNext(backoff_full)
                    /\ in' = e
                    /\ last' = [op |-> "enqueue", ok |-> FALSE]
                    /\ UNCHANGED << ring_, head_, enqueued >>
               ELSE /\ Len(enqueued) < maxEnq
                    /\ backoff_full' = MIN_WAIT_FULL
                    /\ in' = stamped
                    /\ ring_' = [ring_ EXCEPT ![Index32(slot)] = in']
                    /\ head_' = U32Inc(slot)
                    /\ last' = [op |-> "enqueue", ok |-> TRUE]
                    /\ enqueued' = Append(enqueued, in')
    /\ UNCHANGED << ppc, pend >>
    /\ UNCHANGED << ctorVars, peer, shake, bump >>
    /\ UNCHANGED consVars

\* a whole dequeue call on the uint32_t counters
Dequeue32(maxFail) ==
    /\ built.consumer \in {"init", "attach"}
    /\ \E line \in { ring_[Index32(tail_)] } :                   \* load_fresh_64B
       \E res \in { IF line.meta.epoch # EpochOf32(tail_) THEN "empty"
                    ELSE IF ~verify_checksum(line) THEN "checksum"
                    ELSE "ok" } :
           /\ out' = line
           /\ IF res = "empty"
              THEN /\ Fails32 < maxFail
                   /\ metrics' = DequeueMetrics32(res, FALSE)
                   /\ backoff_empty' = PauseNext(backoff_empty)
                   /\ last' = [op |-> "dequeue", ok |-> FALSE]
                   /\ UNCHANGED << tail_, cxl_tail_, backoff_checksum, dequeued >>
              ELSE IF res = "checksum"
              THEN /\ Fails32 < maxFail
                   /\ metrics' = DequeueMetrics32(res, FALSE)
                   /\ backoff_checksum' = PauseNext(backoff_checksum)
                   /\ last' = [op |-> "dequeue", ok |-> FALSE]
                   /\ UNCHANGED << tail_, cxl_tail_, backoff_empty, dequeued >>
              ELSE /\ tail_' = U32Inc(tail_)
                   /\ backoff_empty' = MIN_WAIT_EMPTY
                   /\ backoff_checksum' = MIN_WAIT_CHECKSUM
                   /\ metrics' = DequeueMetrics32(res, FlushDue32(U32Inc(tail_)))
                   /\ cxl_tail_' = IF FlushDue32(U32Inc(tail_))
                                   THEN ZeroExtend(U32Inc(tail_)) ELSE cxl_tail_   \* flush_tail
                   /\ last' = [op |-> "dequeue", ok |-> TRUE]
                   /\ dequeued' = Append(dequeued, line)
           /\ UNCHANGED << ring_, head_, shadow_tail_, backoff_full, ppc,
                           in, pend, enqueued >>
           /\ UNCHANGED << ctorVars, peer, shake, bump >>

U32Enqueue == Enqueue32(U32MaxEnq, U32MaxFail)

U32Dequeue == Dequeue32(U32MaxFail)

U32Next ==
    \/ U32Enqueue
    \/ U32Dequeue

SpecU32 == InitU32 /\ [][U32Next]_vars

\* C34 -- Counter wrap-around: while head, shadow_tail and tail pass from
\* 2^32 - 1 to 0, the calls of one thread keep FIFO order (the delivered
\* entries are a prefix of the accepted ones, tail never passes head and
\* head leads by at most the capacity), lose nothing (a dequeue with an
\* entry outstanding returns true with the oldest outstanding entry, whose
\* epoch is the low 8 bits of (counter >> order) + 1, the same before and
\* after the wrap because 2^(32 - order) is a multiple of 256: for every
\* order up to 24 the epoch of counter 0 follows that of 2^32 - 1 as the
\* epoch of any lap follows that of the lap before), reject every enqueue
\* on a full ring without touching it, and reject every dequeue on an empty
\* ring.
C34_CounterWrap ==
    /\ [](/\ Len(dequeued) <= Len(enqueued)
          /\ \A j \in 1..Len(dequeued) : dequeued[j] = enqueued[j]
          /\ AsInt32(U32Sub(head_, tail_)) = Len(enqueued) - Len(dequeued)
          /\ Len(enqueued) - Len(dequeued) <= Pow2(order_)
          /\ \A n \in 0..24 :
                (AsUint8(U32Shr(U32Of(0), n)) + 1) % 256
                    = (((AsUint8(U32Shr(U32Before(1), n)) + 1) % 256) + 1) % 256)
    /\ [][ /\ (metrics'.dequeue_calls # metrics.dequeue_calls) =>
                IF Len(enqueued) = Len(dequeued)
                THEN /\ last' = [op |-> "dequeue", ok |-> FALSE]
                     /\ tail_' = tail_
                     /\ dequeued' = dequeued
                ELSE /\ last' = [op |-> "dequeue", ok |-> TRUE]
                     /\ out' = enqueued[Len(dequeued) + 1]
                     /\ dequeued' = Append(dequeued, out')
                     /\ out'.meta.epoch =
                            ((AsInt32(tail_) \div Pow2(order_)) + 1) % 256
           /\ (metrics'.enqueue_calls # metrics.enqueue_calls) =>
                /\ (Len(enqueued) - Len(dequeued) = Pow2(order_)) =>
                        /\ last' = [op |-> "enqueue", ok |-> FALSE]
                        /\ ring_' = ring_
                        /\ head_' = head_
                        /\ enqueued' = enqueued
                /\ (last' = [op |-> "enqueue", ok |-> FALSE]) =>
                        Len(enqueued) - Len(dequeued) > Pow2(order_) - Max(1, Pow2(order_) \div 4)
         ]_vars

\* the ring is full across the wrap: head has passed 0, tail has not, some
\* entries were delivered before and the enqueue just called was rejected
C34_Witness ==
    /\ order_ = 2
    /\ head_ = << 3, 0 >>
    /\ tail_ = << 65535, 65535 >>
    /\ Len(dequeued) >= 1
    /\ Len(enqueued) - Len(dequeued) = 4
    /\ last = [op |-> "enqueue", ok |-> FALSE]

\* ------------------------------------------------------------------------
\*  A line with every payload word in use, published beside a polling consumer
\* ------------------------------------------------------------------------
FlightMaxEnq == 1
FlightMaxFail == 2

\* the i-th entry of test_checksum_logic: args[j] = 0xAA55AA55AA55AA55 + j,
\* rpc_method 3, rpc_id 0xEE + i, seal_index 42
GoodEntry(i, st) ==
    [args |-> [j \in 1..7 |-> << 43605 + (j - 1), 43605, 43605, 43605 >>],
     meta |-> [epoch |-> st[1], rpc_method |-> 3, rpc_id |-> (238 + i) % 65536,
               seal_index |-> 42, checksum |-> st[2]]]

FlightEntries(i) == { GoodEntry(i, st) : st \in StaleStamps }

FlightStart == EnqueueBegin(FlightEntries(head_), FlightMaxEnq, FlightMaxFail)

FlightDequeue == Dequeue(FlightMaxFail)

FlightNext ==
    \/ FlightStart
    \/ PublishWords
    \/ EnqueueFinish
    \/ FlightDequeue

SpecFlight == Init /\ [][FlightNext]_vars

\* C35 -- Checksum failure is transient for an in-flight write: when the
\* previous dequeue call failed the checksum on the line at tail (out still
\* holds that line: the expected epoch, a non-zero fold), the next dequeue
\* call either fails again and leaves tail and the delivered entries alone,
\* or returns true with exactly the entry the producer handed to the store;
\* and it returns true once every word of that entry is visible in the slot.
C35_TransientChecksumFailure ==
    [][ (/\ metrics'.dequeue_calls # metrics.dequeue_calls
         /\ out.meta.epoch = ((tail_ \div Pow2(order_)) + 1) % 256
         /\ xor_checksum64(out) # 0)
        => /\ Len(Produced) > tail_
           /\ IF last'.ok
              THEN /\ out' = Produced[tail_ + 1]
                   /\ dequeued' = Append(dequeued, Produced[tail_ + 1])
                   /\ tail_' = tail_ + 1
              ELSE /\ tail_' = tail_
                   /\ dequeued' = dequeued
           /\ (ring_[tail_ % Pow2(order_)] = Produced[tail_ + 1]) => last'.ok ]_vars

\* ------------------------------------------------------------------------
\*  The two-process throughput tool (two_server_cxl_mpsc_queue.cpp)
\* ------------------------------------------------------------------------
ShakeMaxOrder == 3
ShakeIter == 4
ShakeMaxFail == 2

\* const std::size_t WARMUP = q_producer.capacity() / 4
WARMUP == Pow2(order_) \div 4

\* the producer's Entry e: rpc_method 1, seal_index -1, rpc_id = i, and
\* the epoch and checksum the previous enqueue call stamped into it
ToolEntries(i) ==
    { [args |-> [j \in 1..7 |-> ZeroWord],
       meta |-> [epoch |-> in.meta.epoch, rpc_method |-> 1, rpc_id |-> i % 65536,
                 seal_index |-> -1, checksum |-> in.meta.checksum]] }

\* what the three flag lines of the device slice may hold when the
\* processes start: zeroes, or the ones a finished run has left
FlagLines == { << 0, 0, 0 >>, << 1, 1, 1 >> }

\* both processes have mapped the slice and allocated the five regions;
\* neither has a queue object yet
InitShake ==
    /\ order_ \in 2..ShakeMaxOrder
    /\ \E g \in GarbageLines : ring_ = [i \in 0..(Pow2(order_) - 1) |-> g]
    /\ cxl_tail_ \in {0, 5}
    /\ head_ = 0 /\ shadow_tail_ = 0 /\ tail_ = 0
    /\ align = << 0, 0 >>
    /\ built = [producer |-> "none", consumer |-> "none"]
    /\ warm = 0
    /\ peer = NewQueue(order_)
    /\ bump = NoBump
    /\ \E f \in FlagLines :
        shake = [producer_ready |-> f[1], consumer_ready |-> f[2], start_signal |-> f[3],
                 ppos |-> "zero_producer_ready", cpos |-> "wait_producer", consumed |-> 0]
    /\ metrics = ZeroMetrics
    /\ backoff_full = MIN_WAIT_FULL
    /\ backoff_empty = MIN_WAIT_EMPTY
    /\ backoff_checksum = MIN_WAIT_CHECKSUM
    /\ ppc = "idle"
    /\ in = ZeroEntry
    /\ pend = {}
    /\ out = ZeroEntry
    /\ last = [op |-> "none", ok |-> FALSE]
    /\ enqueued = << >>
    /\ dequeued = << >>

queueVars == << ring_, cxl_tail_, head_, shadow_tail_, tail_, metrics, backoff_full,
                backoff_empty, backoff_checksum, ppc, in, pend, out, last,
                enqueued, dequeued >>

\* producer: store_nt_u64(producer_ready, 0); (consumer_ready, 0); (start_signal, 0)
ShakeZero ==
    /\ \/ /\ shake.ppos = "zero_producer_ready"
          /\ shake' = [shake EXCEPT !.producer_ready = 0, !.ppos = "zero_consumer_ready"]
       \/ /\ shake.ppos = "zero_consumer_ready"
          /\ shake' = [shake EXCEPT !.consumer_ready = 0, !.ppos = "zero_start_signal"]
       \/ /\ shake.ppos = "zero_start_signal"
          /\ shake' = [shake EXCEPT !.start_signal = 0, !.ppos = "construct"]
    /\ UNCHANGED << queueVars, ctorVars, peer, bump >>

\* producer: CxlMpscQueue q_producer(ring, ORDER, tail_cxl, /*do_initialize=*/true)
ShakeConstruct ==
    /\ shake.ppos = "construct"
    /\ built' = [built EXCEPT !.producer = "init"]
    /\ head_' = 0
    /\ shadow_tail_' = 0
    /\ ring_' = MemsetRing(ring_)
    /\ cxl_tail_' = 0
    /\ shake' = [shake EXCEPT !.ppos = "warmup"]
    /\ UNCHANGED << order_, align, warm, tail_, metrics, backoff_full, backoff_empty,
                    backoff_checksum, ppc, in, pend, out, last, enqueued,
                    dequeued, peer, bump >>

\* producer: one enqueue call of the warm-up loop
ShakeWarmup ==
    /\ shake.ppos = "warmup"
    /\ head_ < WARMUP
    /\ EnqueueCall(ToolEntries(head_), WARMUP, ShakeMaxFail)

\* producer: store_nt_u64(producer_ready, 1) after the warm-up loop
ShakeReady ==
    /\ shake.ppos = "warmup"
    /\ head_ = WARMUP
    /\ shake' = [shake EXCEPT !.producer_ready = 1, !.ppos = "wait_consumer"]
    /\ UNCHANGED << queueVars, ctorVars, peer, bump >>

\* producer: load_fresh_u64(consumer_ready) != 0, then store_nt_u64(start_signal, 1)
ShakeStart ==
    /\ shake.ppos = "wait_consumer"
    /\ shake.consumer_ready # 0
    /\ shake' = [shake EXCEPT !.start_signal = 1, !.ppos = "timed"]
    /\ UNCHANGED << queueVars, ctorVars, peer, bump >>

\* producer: one enqueue call of the timed loop
ShakeTimed ==
    /\ shake.ppos = "timed"
    /\ head_ < ShakeIter
    /\ EnqueueCall(ToolEntries(head_), ShakeIter, ShakeMaxFail)

\* consumer: load_fresh_u64(producer_ready) != 0
ShakeSeeProducer ==
    /\ shake.cpos = "wait_producer"
    /\ shake.producer_ready # 0
    /\ shake' = [shake EXCEPT !.cpos = "attach"]
    /\ UNCHANGED << queueVars, ctorVars, peer, bump >>

\* consumer: CxlMpscQueue q_consumer(ring, ORDER, tail_cxl, /*do_initialize=*/false)
ShakeAttach ==
    /\ shake.cpos = "attach"
    /\ built' = [built EXCEPT !.consumer = "attach"]
    /\ tail_' = 0
    /\ ring_' = AttachedRing(ring_)
    /\ cxl_tail_' = AttachedTail(cxl_tail_)
    /\ warm' = head_
    /\ shake' = [shake EXCEPT !.cpos = "signal"]
    /\ UNCHANGED << order_, align, head_, shadow_tail_, metrics, backoff_full,
                    backoff_empty, backoff_checksum, ppc, in, pend, out, last,
                    enqueued, dequeued, peer, bump >>

\* consumer: store_nt_u64(consumer_ready, 1)
ShakeSignal ==
    /\ shake.cpos = "signal"
    /\ shake' = [shake EXCEPT !.consumer_ready = 1, !.cpos = "wait_start"]
    /\ UNCHANGED << queueVars, ctorVars, peer, bump >>

\* consumer: load_fresh_u64(start_signal) != 0
ShakeSeeStart ==
    /\ shake.cpos = "wait_start"
    /\ shake.start_signal # 0
    /\ shake' = [shake EXCEPT !.cpos = "run"]
    /\ UNCHANGED << queueVars, ctorVars, peer, bump >>

\* consumer: one dequeue call of while (consumed < ITER)
ShakeDequeue ==
    /\ shake.cpos = "run"
    /\ shake.consumed < ShakeIter
    /\ Len(dequeued) = shake.consumed
    /\ Dequeue(ShakeMaxFail)

\* consumer, after a dequeue that returned true: consumed++, then the
\* comparison of e.meta.f.rpc_id with static_cast<uint16_t>(consumed);
\* exit(EXIT_FAILURE) on a difference, return 0 after ITER entries
ShakeVerify ==
    /\ shake.cpos = "run"
    /\ Len(dequeued) > shake.consumed
    /\ LET consumed == shake.consumed + 1
       IN  shake' = [shake EXCEPT
                        !.consumed = consumed,
                        !.cpos = IF out.meta.rpc_id # consumed % 65536 THEN "exit_failure"
                                 ELSE IF consumed < ShakeIter THEN "run"
                                 ELSE "exit_0"]
    /\ UNCHANGED << queueVars, ctorVars, peer, bump >>

ShakeNext ==
    \/ ShakeZero
    \/ ShakeConstruct
    \/ ShakeWarmup
    \/ ShakeReady
    \/ ShakeStart
    \/ ShakeTimed
    \/ ShakeSeeProducer
    \/ ShakeAttach
    \/ ShakeSignal
    \/ ShakeSeeStart
    \/ ShakeDequeue
    \/ ShakeVerify

SpecShake == InitShake /\ [][ShakeNext]_vars

\* C36 -- Two-process handshake ordering: the producer has written
\* producer_ready = 1 only after zeroing the flags, initialising the ring
\* and finishing the warm-up; the consumer has written consumer_ready = 1
\* only after that; the producer has written start_signal = 1 only after
\* that; and the consumer's first dequeue and the producer's first timed
\* enqueue come only after start_signal was written.
C36_HandshakeOrder ==
    LET producerReadyWritten == shake.ppos \in {"wait_consumer", "timed"}
        consumerSawProducer  == shake.cpos \notin {"wait_producer"}
        consumerReadyWritten == shake.cpos \in {"wait_start", "run", "exit_0", "exit_failure"}
        startSignalWritten   == shake.ppos = "timed"
        consumerRuns         == shake.cpos \in {"run", "exit_0", "exit_failure"}
    IN  /\ producerReadyWritten =>
            (built.producer = "init" /\ metrics.enqueue_calls >= WARMUP)
        /\ consumerSawProducer => producerReadyWritten
        /\ startSignalWritten => consumerReadyWritten
        /\ consumerRuns => startSignalWritten
        /\ metrics.dequeue_calls > 0 => startSignalWritten
        /\ metrics.enqueue_calls > WARMUP => startSignalWritten

\* C37 -- Throughput-tool verdict: the consumer exits with a failure only
\* when an entry it was handed carries another rpc_id than the producer gave
\* to the entry of that position (position k, counted from 1, has rpc_id
\* (k - 1) mod 2^16), and it has exited with 0 once it has consumed ITER
\* entries that arrived in FIFO order.
C37_ToolVerdict ==
    /\ shake.cpos = "exit_failure" =>
          \E k \in 1..Len(dequeued) : dequeued[k].meta.rpc_id # (k - 1) % 65536
    /\ (/\ shake.consumed = ShakeIter
        /\ \A k \in 1..Len(dequeued) :
              k <= Len(enqueued) /\ dequeued[k] = enqueued[k])
          => shake.cpos = "exit_0"

\* ------------------------------------------------------------------------
\*  BumpPtr (src/cxl_allocator.hpp): addresses and sizes are 64-bit words
\* ------------------------------------------------------------------------
BumpMaxCalls == 3

\* the 64-bit value n, for 0 <= n < 2^31
U64Of(n) == << n % 65536, n \div 65536, 0, 0 >>

\* the carry out of a + b and its four halfwords
U64Sum(a, b) ==
    LET s1 == a[1] + b[1]
        s2 == a[2] + b[2] + (s1 \div 65536)
        s3 == a[3] + b[3] + (s2 \div 65536)
        s4 == a[4] + b[4] + (s3 \div 65536)
    IN  [carry |-> s4 \div 65536,
         word  |-> << s1 % 65536, s2 % 65536, s3 % 65536, s4 % 65536 >>]

\* a + b on std::uintptr_t / std::size_t
U64Plus(a, b) == U64Sum(a, b).word

\* a - b on std::uintptr_t / std::size_t
U64Minus(a, b) ==
    LET d1 == a[1] - b[1]
        d2 == a[2] - b[2] - (IF d1 < 0 THEN 1 ELSE 0)
        d3 == a[3] - b[3] - (IF d2 < 0 THEN 1 ELSE 0)
        d4 == a[4] - b[4] - (IF d3 < 0 THEN 1 ELSE 0)
    IN  << (d1 + 65536) % 65536, (d2 + 65536) % 65536,
           (d3 + 65536) % 65536, (d4 + 65536) % 65536 >>

\* a & ~m
U64AndNot(a, m) == [i \in 1..4 |-> BitAnd(a[i], 65535 - m[i])]

\* a > b, unsigned
U64Greater(a, b) ==
    \E i \in 1..4 : a[i] > b[i] /\ \A j \in (i + 1)..4 : a[j] = b[j]

\* (cur_addr_ + align - 1) & ~(align - 1)
AlignUp(cur, alignment) ==
    U64AndNot(U64Minus(U64Plus(cur, alignment), U64Of(1)), U64Minus(alignment, U64Of(1)))

\* the mapping the allocators hand to BumpPtr: a page-aligned address and a
\* length (1 GiB in the source, a few lines here)
ArenaBases == { << 0, 0, 32512, 0 >> }

ArenaLengths == { U64Of(128), U64Of(200) }

\* request sizes: small ones, one that cannot fit, and 2^64 - 16
RequestSizes ==
    { U64Of(0), U64Of(1), U64Of(8), U64Of(64), U64Of(100), U64Of(4096),
      << 65520, 65535, 65535, 65535 >> }

\* power-of-two alignments
RequestAligns == { U64Of(1), U64Of(8), U64Of(64) }

\* BumpPtr(base_addr, len_bytes)
InitBump ==
    /\ order_ = 0
    /\ ring_ = [i \in 0..0 |-> ZeroEntry]
    /\ cxl_tail_ = 0
    /\ head_ = 0
    /\ shadow_tail_ = 0
    /\ tail_ = 0
    /\ metrics = ZeroMetrics
    /\ backoff_full = MIN_WAIT_FULL
    /\ backoff_empty = MIN_WAIT_EMPTY
    /\ backoff_checksum = MIN_WAIT_CHECKSUM
    /\ ppc = "idle"
    /\ in = ZeroEntry
    /\ pend = {}
    /\ out = ZeroEntry
    /\ last = [op |-> "none", ok |-> FALSE]
    /\ enqueued = << >>
    /\ dequeued = << >>
    /\ built = [producer |-> "none", consumer |-> "none"]
    /\ align = << 0, 0 >>
    /\ warm = 0
    /\ peer = NewQueue(order_)
    /\ shake = NoShake
    /\ \E b \in ArenaBases, l \in ArenaLengths :
        bump = [base_addr_ |-> b, end_addr_ |-> U64Plus(b, l), cur_addr_ |-> b,
                blocks |-> << >>, thrown |-> FALSE, calls |-> 0,
                request |-> [bytes |-> ZeroWord, alignment |-> ZeroWord]]

\* BumpPtr::alloc(bytes, align); a block is recorded as it is returned
alloc(bytes, alignment) ==
    /\ bump.calls < BumpMaxCalls
    /\ LET aligned == AlignUp(bump.cur_addr_, alignment)
           called  == [bump EXCEPT !.calls = @ + 1,
                                   !.request = [bytes |-> bytes, alignment |-> alignment]]
       IN  IF U64Greater(U64Plus(aligned, bytes), bump.end_addr_)
           THEN bump' = [called EXCEPT !.thrown = TRUE]             \* throw std::bad_alloc{}
           ELSE bump' = [called EXCEPT
                            !.cur_addr_ = U64Plus(aligned, bytes),
                            !.blocks = Append(@, [start |-> aligned, bytes |-> bytes,
                                                  alignment |-> alignment]),
                            !.thrown = FALSE]
    /\ UNCHANGED << queueVars, ctorVars, peer, shake >>

\* DaxAllocator::allocate(bytes)
Allocate == \E bytes \in RequestSizes : alloc(bytes, U64Of(1))

\* DaxAllocator::allocate_aligned(bytes, alignment)
AllocateAligned ==
    \E bytes \in RequestSizes, alignment \in RequestAligns \ { U64Of(1) } :
        alloc(bytes, alignment)

BumpNext ==
    \/ Allocate
    \/ AllocateAligned

SpecBump == InitBump /\ [][BumpNext]_vars

\* used(), remaining(), capacity()
BumpUsed == U64Minus(bump.cur_addr_, bump.base_addr_)

BumpRemaining == U64Minus(bump.end_addr_, bump.cur_addr_)

BumpCapacity == U64Minus(bump.end_addr_, bump.base_addr_)

\* C38 -- Bump allocation is aligned and disjoint: every block returned
\* starts at a multiple of its alignment, lies wholly inside
\* [base, base + length), starts at or after the end of every block returned
\* before it, and used() + remaining() = capacity().
C38_AlignedDisjoint ==
    /\ \A i \in 1..Len(bump.blocks) :
        LET b    == bump.blocks[i]
            bend == U64Sum(b.start, b.bytes)
        IN  /\ U64AndNot(b.start, U64AndNot(<< 65535, 65535, 65535, 65535 >>,
                                            U64Minus(b.alignment, U64Of(1)))) = ZeroWord
            /\ ~U64Greater(bump.base_addr_, b.start)
            /\ bend.carry = 0
            /\ ~U64Greater(bend.word, bump.end_addr_)
            /\ \A j \in 1..(i - 1) :
                LET pend_j == U64Sum(bump.blocks[j].start, bump.blocks[j].bytes)
                IN  pend_j.carry = 0 /\ ~U64Greater(pend_j.word, b.start)
    /\ U64Plus(BumpUsed, BumpRemaining) = BumpCapacity
    /\ ~U64Greater(BumpUsed, BumpCapacity)

\* C39 -- Allocator exhaustion: a request whose aligned start plus size
\* lies beyond the end of the arena throws std::bad_alloc and leaves the
\* cursor (used(), remaining()) and the blocks handed out as they were; a
\* request that fits is served at its aligned start, also after a request
\* that was refused.
C39_Exhaustion ==
    [][ (bump'.calls # bump.calls) =>
          LET aligned == AlignUp(bump.cur_addr_, bump'.request.alignment)
              bend    == U64Sum(aligned, bump'.request.bytes)
              beyond  == bend.carry = 1 \/ U64Greater(bend.word, bump.end_addr_)
          IN  IF beyond
              THEN /\ bump'.thrown
                   /\ bump'.blocks = bump.blocks
                   /\ bump'.cur_addr_ = bump.cur_addr_
                   /\ U64Minus(bump'.cur_addr_, bump'.base_addr_) = BumpUsed
                   /\ U64Minus(bump'.end_addr_, bump'.cur_addr_) = BumpRemaining
              ELSE /\ ~bump'.thrown
                   /\ Len(bump'.blocks) = Len(bump.blocks) + 1
                   /\ bump'.blocks[Len(bump'.blocks)].start = aligned
                   /\ bump'.cur_addr_ = bend.word
        ]_vars

====
